---- MODULE Spec2Model ----
(***************************************************************************)
(* A model of the Blender ACES Manager add-on (utils.py, operators.py,     *)
(* ui.py): the install pipeline of an OCIO profile, the switch between the *)
(* host default and the ACES profile with its backups, the JSON state      *)
(* ledger, the update check and the install operator with its background   *)
(* thread.                                                                 *)
(***************************************************************************)
EXTENDS Integers, Sequences, FiniteSets, TLC

\* Wall-clock seconds the model lets pass (time.strftime has 1 s resolution).
MaxTime == 1

\* len(DEFAULT_ZIP_URLS)
NumDefaultUrls == 5

(***************************************************************************)
(* Paths.  A path is a sequence of components.                             *)
(***************************************************************************)
NoPath == << >>
Cwd == <<"cwd">>
AcesConfigPath == <<"data", "aces", "config", "config.ocio">>
AcesAltSpelling == <<"data", ".", "aces", "config", "config.ocio">>
CustomPath == <<"custom", "config.ocio">>
MissingPath == <<"gone", "config.ocio">>
DefaultConfigDir == <<"blender", "datafiles", "colormanagement">>
OverridePaths == {NoPath, AcesConfigPath, AcesAltSpelling, CustomPath, MissingPath}

IsDot(c) == c = "."
NotDot(c) == ~IsDot(c)
\* os.path.normcase(os.path.abspath(p)): the empty path is the working
\* directory, "." components are dropped.
NormPath(p) == IF p = NoPath THEN Cwd ELSE SelectSeq(p, NotDot)

\* os.path.dirname(os.path.abspath(p))
DirName(p) == LET a == NormPath(p) IN SubSeq(a, 1, Len(a) - 1)

(***************************************************************************)
(* The profile directory aces/config is the set of its files.              *)
(***************************************************************************)
Marker == "config.ocio"
ProfileFiles == {Marker, "luts"}
NoProfile == {}

VARIABLES
  hostApi,       \* "pref": the host has the override preference; "env": only OCIO;
                 \* "readonly": the preference is there and assigning it raises
  pref,          \* the host's override preference
  env,           \* os.environ['OCIO'], NoPath when unset
  hasDefaultConfig, \* a colormanagement/config.ocio is found near the host binary
  acesRepoPref,  \* prefs.aces_repo_preference is non-empty
  config,        \* files of aces/config
  now,           \* the clock, in seconds
  backupFs,      \* directories under backups/: records [kind, time, complete]
  stateFile,     \* state.json
  result,        \* what the last UI operation returned
  attempts,      \* sources the last install loop tried: <<[url, ok]>>
  lastBackup,    \* the backup call of the last switch and how it ended
  op,            \* the install operator: is_installing, installation_complete,
                 \* installation_success, installation_message
  modal,         \* the operator's modal handler is registered
  reported,      \* what the modal handler passed to self.report
  cancelled,     \* bam.cancel_install has acted on the running installation
  callPre,       \* aces/config before the last direct call of the pipeline
  callRet,       \* what the last direct call of the pipeline returned
  tpc,           \* per install thread: where it is
  turl,          \* per install thread: index of the source it is at
  terr,          \* per install thread: last_error
  ttried,        \* per install thread: the sources tried, <<[url, ok]>>
  ucPc,          \* the background update check: where it is
  ucLocal,       \* the background update check: its local state dict
  dlPc,          \* download_zip: where it is
  dlTmp,         \* download_zip: blocks in the temporary file, -1 when it is absent
  dlDest,        \* download_zip: the file at dest_zip_path
  dlDestOld,     \* download_zip: the file at dest_zip_path when the call began
  dlSameFs,      \* the temporary directory is on the file system of dest_zip_path
  dlTotal,       \* the total size the server reports, -1 when it reports none
  dlRaised,      \* download_zip raised
  dlCb,          \* download_zip was given a progress callback
  clock,         \* time.time(), in milliseconds
  lastUpdate,    \* DownloadProgress.last_update_time, in milliseconds
  cbTimes,       \* the times at which update_progress invoked the callback
  checkRet,      \* what the last check_addon_update of the UI returned
  verPc,         \* the version check on its own: "idle" or "done"
  verTag,        \* the version check on its own: the tag of the latest release
  verRunning,    \* the version check on its own: the running version
  verOut,        \* the version check on its own: the result dict
  incompat,      \* is_config_potentially_incompatible on its own: the lines of
                 \* the file, whether it can be read, and what was returned
  uninstallOp,   \* BAM_OT_uninstall_aces.execute: what it returned and reported
  addonUpdate,   \* install_addon_from_zip: its position, the host it runs on, the
                 \* mechanisms it tried, enable_ok and what it returned
  repack,        \* the inspection and repack of install_addon_from_zip: the
                 \* downloaded archive, whether extraction or re-archiving fails, and the
                 \* archive handed to the installer
  locate,        \* the locate, compatibility and staging stages of
                 \* install_aces_from_zip_url: the extracted tree, the text of its marker
                 \* files, whether the copy fails, aces/config and the return value
  pipe,          \* install_aces_from_zip_url statement by statement: the calls that
                 \* fail, the progress callback, the messages it was given, the return
                 \* value and whether an exception left the function
  percent,       \* the percentages install_aces_from_zip_url hands to its progress
                 \* callback during one call: the transfer and the reports so far
  restartCall,\* restart_blender_with_same_file: the document, the calls that
                 \* raise, what was attempted in order and what reached the caller
  releaseCall    \* get_latest_release_info on its own: the releases of the
                 \* repository, what the two endpoints answer, and what was returned

switchVars == <<pref, env, now, backupFs, stateFile, result, attempts, lastBackup>>
opVars == <<op, modal, reported, cancelled>>
threadVars == <<tpc, turl, terr, ttried>>
callVars == <<callPre, callRet>>
checkVars == <<ucPc, ucLocal>>
dlVars == <<dlPc, dlTmp, dlDest, dlDestOld, dlSameFs, dlTotal, dlRaised, dlCb,
            clock, lastUpdate, cbTimes>>

vars == <<hostApi, pref, env, hasDefaultConfig, acesRepoPref, config,
          now, backupFs, stateFile, result, attempts, lastBackup,
          op, modal, reported, cancelled, callPre, callRet, tpc, turl, terr, ttried,
          ucPc, ucLocal, dlVars, checkRet, verPc, verTag, verRunning, verOut,
          incompat,
          uninstallOp,
          addonUpdate,
          repack,
          locate,
          pipe,
          percent,
          restartCall,
          releaseCall>>

verVars == <<verPc, verTag, verRunning, verOut>>

\* The state of the switches, the install operator and the update check.
progVars == <<hostApi, pref, env, hasDefaultConfig, acesRepoPref, config,
              now, backupFs, stateFile, result, attempts, lastBackup,
              op, modal, reported, cancelled, callPre, callRet, tpc, turl, terr, ttried,
              ucPc, ucLocal>>

\* What download_zip leaves alone.
exceptDl == <<progVars, checkRet, verVars, incompat, uninstallOp, addonUpdate, repack, locate, pipe, percent, restartCall, releaseCall>>

\* What the version check on its own leaves alone.
exceptVer == <<progVars, checkRet, dlVars, incompat, uninstallOp, addonUpdate, repack, locate, pipe, percent, restartCall, releaseCall>>

\* What is_config_potentially_incompatible on its own leaves alone.
exceptIncompat == <<progVars, checkRet, dlVars, verVars, uninstallOp, addonUpdate, repack, locate, pipe, percent, restartCall, releaseCall>>

\* What BAM_OT_uninstall_aces.execute leaves alone besides the state of the
\* switches and the install operator.
exceptUninstall == <<dlVars, verVars, checkRet, incompat, addonUpdate, repack, locate, pipe, percent, restartCall, releaseCall>>

\* What install_addon_from_zip leaves alone.
exceptAddonUpdate == <<progVars, dlVars, verVars, checkRet, incompat, uninstallOp, repack, locate, pipe, percent, restartCall, releaseCall>>

\* What the repack step leaves alone.
exceptRepack == <<progVars, dlVars, verVars, checkRet, incompat, uninstallOp, addonUpdate, locate, pipe, percent, restartCall, releaseCall>>

\* What the locate and staging stages on their own leave alone.
exceptLocate == <<progVars, dlVars, verVars, checkRet, incompat, uninstallOp, addonUpdate, repack, pipe, percent, restartCall, releaseCall>>

\* What install_aces_from_zip_url, taken statement by statement, leaves alone.
exceptPipe == <<progVars, dlVars, verVars, checkRet, incompat, uninstallOp, addonUpdate, repack, locate, percent, restartCall, releaseCall>>

\* What the reporting of progress leaves alone.
exceptPercent == <<progVars, dlVars, verVars, checkRet, incompat, uninstallOp, addonUpdate, repack, locate, pipe, restartCall, releaseCall>>

\* What restart_blender_with_same_file on its own leaves alone.
exceptRestart == <<progVars, dlVars, verVars, checkRet, incompat, uninstallOp, addonUpdate, repack, locate, pipe, percent, releaseCall>>

\* What get_latest_release_info on its own leaves alone.
exceptRelease == <<progVars, dlVars, verVars, checkRet, incompat, uninstallOp, addonUpdate, repack, locate, pipe, percent, restartCall>>

\* What the operations of the switches and of the install operator leave alone.
restVars == <<dlVars, verVars, checkRet, incompat, uninstallOp, addonUpdate, repack, locate, pipe, percent, restartCall, releaseCall>>

hostVars == <<hostApi, hasDefaultConfig, acesRepoPref>>

\* is_aces_installed
IsAcesInstalled(cfg) == Marker \in cfg

\* get_ocio_config_override
GetOverride(api, p, e) == IF api = "env" THEN e ELSE p

\* The host as the four version branches of get_ocio_config_override and
\* set_ocio_config_override see it: each branch tests one attribute of
\* preferences.system (ocio_config_override from 4.0, color_management on
\* 3.6, ocio_config before) and reads or assigns it, and goes to the OCIO
\* environment variable when the attribute is missing.  An assignment that
\* raises is caught and leaves the preference as it was.
HostVersions == {"4.0+", "3.6", "3.0-3.5", "2.93-"}
HostApiOf(version, has_attr, write_raises) ==
  IF ~has_attr THEN "env"
  ELSE IF write_raises THEN "readonly" ELSE "pref"

\* set_ocio_config_override(path): the preference and the variable after it.
SetOverride(api, p, e, path) ==
  CASE api = "pref" -> [pref |-> path, env |-> e]
    [] api = "readonly" -> [pref |-> p, env |-> e]
    [] OTHER -> [pref |-> p, env |-> path]

\* switch_to_default, "Clear preference if available", then del os.environ['OCIO']
ClearOverride(api, p, e) ==
  [pref |-> IF api = "pref" THEN NoPath ELSE p, env |-> NoPath]

\* is_using_aces
IsUsingAces(api, p, e) == NormPath(GetOverride(api, p, e)) = NormPath(AcesConfigPath)

\* The status text with the override compared as it is stored.
GetCurrentStatusTextRaw(api, p, e) ==
  IF GetOverride(api, p, e) = AcesConfigPath THEN "ACES Active"
  ELSE IF GetOverride(api, p, e) # NoPath THEN "Custom OCIO"
  ELSE "Blender Default"

\* _get_current_status_text
GetCurrentStatusText(api, p, e) ==
  IF IsUsingAces(api, p, e) THEN "ACES Active"
  ELSE IF GetOverride(api, p, e) # NoPath THEN "Custom OCIO"
  ELSE "Blender Default"

\* os.path.isfile(override_path)
IsFile(p, cfg) ==
  IF NormPath(p) = NormPath(AcesConfigPath) THEN IsAcesInstalled(cfg)
  ELSE p = CustomPath

(***************************************************************************)
(* The state ledger.                                                       *)
(***************************************************************************)
NoUpdate == [present |-> FALSE, current |-> << >>, latest |-> << >>,
             available |-> FALSE, checked_at |-> 0]
EmptyState == [update |-> NoUpdate, backups |-> << >>]
MissingFile == [kind |-> "missing", update |-> NoUpdate, backups |-> << >>]
CorruptFile == [kind |-> "corrupt", update |-> NoUpdate, backups |-> << >>]

\* load_state: {} when the file is missing or does not parse
LoadState(f) ==
  IF f.kind = "valid" THEN [update |-> f.update, backups |-> f.backups] ELSE EmptyState

\* save_state
SaveState(s) == [kind |-> "valid", update |-> s.update, backups |-> s.backups]

\* bl_info["version"]
CurrentVersion == <<1, 0, 8>>

(***************************************************************************)
(* Version strings are sequences of characters.                            *)
(***************************************************************************)
DigitChars == <<"0", "1", "2", "3", "4", "5", "6", "7", "8", "9">>
Digits == {DigitChars[i] : i \in 1..Len(DigitChars)}
DigitVal(c) == (CHOOSE i \in 1..Len(DigitChars) : DigitChars[i] = c) - 1

\* str.strip()
RECURSIVE StripLeft(_)
StripLeft(s) == IF s # << >> /\ Head(s) = " " THEN StripLeft(Tail(s)) ELSE s
RECURSIVE StripRight(_)
StripRight(s) ==
  IF s # << >> /\ s[Len(s)] = " " THEN StripRight(SubSeq(s, 1, Len(s) - 1)) ELSE s
Strip(s) == StripRight(StripLeft(s))

\* str.split('.'), from position i on; cur is the part being read.
RECURSIVE SplitDotFrom(_, _, _)
SplitDotFrom(s, i, cur) ==
  IF i > Len(s) THEN <<cur>>
  ELSE IF s[i] = "." THEN <<cur>> \o SplitDotFrom(s, i + 1, << >>)
  ELSE SplitDotFrom(s, i + 1, Append(cur, s[i]))
SplitDot(s) == SplitDotFrom(s, 1, << >>)

\* str.isdigit()
IsDigitStr(part) == part # << >> /\ \A i \in 1..Len(part) : part[i] \in Digits

\* p.isdigit() or (p and p[0].isdigit())
KeptPart(part) == IsDigitStr(part) \/ (part # << >> /\ part[1] \in Digits)

\* int(p) raises nothing: p, surrounding blanks aside, is all digits.
IntParses(part) == IsDigitStr(Strip(part))

\* int(p)
RECURSIVE IntOfDigits(_)
IntOfDigits(ds) ==
  IF ds = << >> THEN 0
  ELSE 10 * IntOfDigits(SubSeq(ds, 1, Len(ds) - 1)) + DigitVal(ds[Len(ds)])
IntOf(part) == IntOfDigits(Strip(part))

\* parts[:3], padded with 0 to three
PadThree(ns) == [i \in 1..3 |-> IF i <= Len(ns) THEN ns[i] ELSE 0]

\* _parse_version_string
ParseVersionString(str) ==
  LET v == Strip(str)
      w == IF v # << >> /\ v[1] \in {"v", "V"} THEN Tail(v) ELSE v
      parts == SelectSeq(SplitDot(w), KeptPart)
  IN  IF \E i \in 1..Len(parts) : ~IntParses(parts[i])
      THEN <<0, 0, 0>>
      ELSE PadThree([i \in 1..Len(parts) |-> IntOf(parts[i])])

\* str(n) of the f-strings
RECURSIVE FormatInt(_)
FormatInt(n) ==
  IF n < 10 THEN <<DigitChars[n + 1]>>
  ELSE FormatInt(n \div 10) \o <<DigitChars[(n % 10) + 1]>>

\* f"{v[0]}.{v[1]}.{v[2]}"
FormatVersion(v) == FormatInt(v[1]) \o <<".">> \o FormatInt(v[2]) \o <<".">> \o FormatInt(v[3])

\* What get_latest_release_info returns: None, or a release with its tag.
NoRelease == [found |-> FALSE, version |-> << >>]
Release(tag) == [found |-> TRUE, version |-> tag]
ReleaseInfos == {NoRelease, Release(<<"v", "1", ".", "0", ".", "8">>),
                 Release(<<"1", ".", "1", "0", ".", "0">>)}

\* A comparison that takes any greater component for newer.
AnyGreater(a, b) == \E i \in 1..3 : a[i] > b[i]

\* latest_tuple > current_version, on 3-tuples
VersionGreater(a, b) ==
  \/ a[1] > b[1]
  \/ a[1] = b[1] /\ a[2] > b[2]
  \/ a[1] = b[1] /\ a[2] = b[2] /\ a[3] > b[3]

\* _parse_version_string(info.get("version") or "0.0.0")
LatestTuple(info) ==
  ParseVersionString(IF info.version = << >> THEN FormatVersion(<<0, 0, 0>>)
                     ELSE info.version)

\* check_addon_update: the result dict, from the parsed latest version and
\* the running version cur
UpdateResultOf(found, latest, cur, t) ==
  [present |-> TRUE,
   current |-> cur,
   latest |-> IF found THEN latest ELSE << >>,
   available |-> found /\ VersionGreater(latest, cur),
   checked_at |-> t]

UpdateResultFor(info, cur, t) == UpdateResultOf(info.found, LatestTuple(info), cur, t)

\* LatestTuple, tabulated over ReleaseInfos.
LatestTupleTable == [info \in ReleaseInfos |-> LatestTuple(info)] @@ << >>

UpdateResult(info, t) ==
  UpdateResultOf(info.found, LatestTupleTable[info], CurrentVersion, t)

\* A replacement of the update entry that forgets the rest of the ledger.
SetUpdateOnly(st, res) == [update |-> res, backups |-> << >>]

\* state["update"] = result
SetUpdate(st, res) == [st EXCEPT !.update = res]

\* get_cached_update_state
GetCachedUpdateState(f) == LoadState(f).update

(***************************************************************************)
(* install_aces_from_zip_url, stage by stage.  What a source delivers is   *)
(* an input of each call: the network and the archive decide it.           *)
(***************************************************************************)
ArchiveKinds == {"unreachable", "badzip", "noconfig", "incompatible", "good"}

Msg(kind, url) == [kind |-> kind, url |-> url]
NoMsg == Msg("", -1)

\* A clean that deletes nothing.
CleanKeeps(cfg, gone) == cfg

\* The clean of the aces directory: rmtree of aces/config deletes the files
\* in gone; it deletes them all unless it raises (the exception is swallowed).
CleanResult(cfg, gone) == cfg \ gone

CleanOutcomes(cfg) ==
  {[config |-> CleanResult(cfg, gone), removed |-> gone = cfg] : gone \in SUBSET cfg}

\* find_config_ocio on the extracted tree of an archive
FindConfigOcio(archive) == archive \in {"incompatible", "good"}

\* is_config_potentially_incompatible on the located config.ocio
IsIncompatible(archive) == archive = "incompatible"

\* Download, extract, locate, compatibility check: the message of the stage
\* that fails, "" when none does.
FetchFailure(archive) ==
  CASE archive = "unreachable" -> "Download failed"
    [] archive = "badzip" -> "Extraction failed"
    [] ~FindConfigOcio(archive) -> "Could not find config.ocio"
    [] IsIncompatible(archive) -> "Downloaded config appears incompatible"
    [] OTHER -> ""

\* The copy into aces/config: rmtree of an existing directory, then copytree.
\* Either may raise: rmtree leaves the files it had not deleted, copytree
\* copies file by file in no fixed order and leaves what it had copied.
StageOutcomes(cfg) ==
  {[ok |-> TRUE, config |-> ProfileFiles]}
    \cup {[ok |-> FALSE, config |-> part] : part \in (SUBSET cfg) \ {NoProfile}}
    \cup {[ok |-> FALSE, config |-> part] : part \in SUBSET ProfileFiles}

\* One call: the set of (ok, message, aces/config) it can end in, each with
\* whether its clean removed the old aces/config.
InstallFromZipUrl(cfg, url) ==
  UNION { UNION {
      IF FetchFailure(archive) # ""
      THEN {[ok |-> FALSE, msg |-> Msg(FetchFailure(archive), url),
             config |-> c.config, removed |-> c.removed]}
      ELSE {[ok |-> s.ok,
             msg |-> IF s.ok THEN Msg("ACES configuration installed", url)
                     ELSE Msg("Failed to stage ACES config", url),
             config |-> s.config, removed |-> c.removed] : s \in StageOutcomes(c.config)}
    : archive \in ArchiveKinds } : c \in CleanOutcomes(cfg) }

\* A source list with the preference after the defaults.
UrlsDefaultsFirst(prefSet) ==
  [i \in 1..NumDefaultUrls |-> i] \o (IF prefSet THEN <<0>> ELSE << >>)

\* The source list: the preference first when it is set, then the defaults.
Urls(prefSet) ==
  (IF prefSet THEN <<0>> ELSE << >>) \o [i \in 1..NumDefaultUrls |-> i]

\* The loop over the sources, from the i-th on.  frontier: the states the
\* failed calls so far can have left, each [config, last_error, attempts].
\* The result: every way the loop can end.
\* A loop whose else branch falls through to the rest of the switch.
LoopFallsThrough(frontier) ==
  {[ok |-> TRUE, msg |-> f.last_error, config |-> f.config,
    attempts |-> f.attempts] : f \in frontier}

\* for ... else: no source was left, return False, last_error
LoopExhausted(frontier) ==
  {[ok |-> FALSE, msg |-> f.last_error, config |-> f.config,
    attempts |-> f.attempts] : f \in frontier}

RECURSIVE InstallLoopFrom(_, _, _)
InstallLoopFrom(urls, i, frontier) ==
  IF i > Len(urls)
  THEN LoopExhausted(frontier)
  ELSE LET outs == UNION {
             {[ok |-> o.ok, msg |-> o.msg, config |-> o.config,
               attempts |-> Append(f.attempts, [url |-> urls[i], ok |-> o.ok])]
                : o \in InstallFromZipUrl(f.config, urls[i])}
             : f \in frontier}
           won == {o \in outs : o.ok}
           lost == {[config |-> o.config, last_error |-> o.msg,
                     attempts |-> o.attempts] : o \in outs \ won}
       IN  won \cup InstallLoopFrom(urls, i + 1, lost)

InstallLoop(urls, cfg) ==
  InstallLoopFrom(urls, 1, {[config |-> cfg, last_error |-> NoMsg, attempts |-> << >>]})

\* InstallLoop, tabulated over its arguments.
InstallLoopTable ==
  [a \in BOOLEAN \X (SUBSET ProfileFiles) |-> InstallLoop(Urls(a[1]), a[2])] @@ << >>

NoCall == [url |-> -1, ok |-> TRUE, msg |-> NoMsg, removed |-> FALSE]

StageFailed == "Failed to stage ACES config"

\* A call install_aces_from_zip_url(url) on its own.
InstallCall(url) ==
  /\ \E o \in InstallFromZipUrl(config, url) :
       /\ config' = o.config
       /\ callRet' = [url |-> url, ok |-> o.ok, msg |-> o.msg, removed |-> o.removed]
  /\ callPre' = config
  /\ UNCHANGED <<hostApi, hasDefaultConfig, acesRepoPref, pref, env, now, backupFs,
                 stateFile, result, attempts, lastBackup, op, modal, reported,
                 cancelled, tpc, turl, terr, ttried, ucPc, ucLocal, restVars>>

(***************************************************************************)
(* Backups.  A backup directory is named after its kind and the second it  *)
(* is made in.                                                             *)
(***************************************************************************)
BackupDir(kind, t) == [kind |-> kind, time |-> t]

BackupExists(fs, kind, t) == \E d \in fs : d.kind = kind /\ d.time = t

\* A copytree that copies into a directory that is already there.
CopyTreeOverExisting(fs, kind, t) ==
  {[ok |-> TRUE,
    fs |-> {d \in fs : d.kind # kind \/ d.time # t}
             \cup {[kind |-> kind, time |-> t, complete |-> TRUE]}],
   [ok |-> FALSE, fs |-> fs]}

\* shutil.copytree(src, backup_dir): raises when backup_dir exists; may raise
\* before or after it has created the directory.
CopyTreeOutcomes(fs, kind, t) ==
  IF BackupExists(fs, kind, t) THEN {[ok |-> FALSE, fs |-> fs]}
  ELSE {[ok |-> TRUE, fs |-> fs \cup {[kind |-> kind, time |-> t, complete |-> TRUE]}],
        [ok |-> FALSE, fs |-> fs],
        [ok |-> FALSE, fs |-> fs \cup {[kind |-> kind, time |-> t, complete |-> FALSE]}]}

\* The ledger record of a backup; only the default backup carries a "type".
BackupRecord(kind, src, t) ==
  [time |-> t, src_dir |-> src, backup_dir |-> BackupDir(kind, t),
   type |-> IF kind = "default_backup" THEN "default" ELSE ""]

\* A logging that does not look at whether the copy succeeded.
LogBackupAlways(file, rec, copied) ==
  LET st == LoadState(file)
  IN  SaveState([st EXCEPT !.backups = Append(st.backups, rec)])

\* state.setdefault("backups", []).append(record); save_state(state)
LogBackup(file, rec, copied) ==
  IF copied
  THEN LET st == LoadState(file)
       IN  SaveState([st EXCEPT !.backups = Append(st.backups, rec)])
  ELSE file

NoBackup(which, outcome, fs, file) ==
  [which |-> which, outcome |-> outcome, fs |-> fs, file |-> file]

\* backup_current_override_if_any
BackupCurrentOverride(cur, cfg, fs, file, t) ==
  IF cur = NoPath \/ ~IsFile(cur, cfg)
  THEN {NoBackup("override", "nosource", fs, file)}
  ELSE {[which |-> "override",
         outcome |-> IF c.ok THEN "ok" ELSE "copyfailed",
         fs |-> c.fs,
         file |-> LogBackup(file, BackupRecord("backup", DirName(cur), t), c.ok)]
          : c \in CopyTreeOutcomes(fs, "backup", t)}

\* backup_default_config_if_possible
BackupDefaultConfig(found, fs, file, t) ==
  IF ~found
  THEN {NoBackup("default", "nosource", fs, file)}
  ELSE {[which |-> "default",
         outcome |-> IF c.ok THEN "ok" ELSE "copyfailed",
         fs |-> c.fs,
         file |-> LogBackup(file, BackupRecord("default_backup", DefaultConfigDir, t), c.ok)]
          : c \in CopyTreeOutcomes(fs, "default_backup", t)}

(***************************************************************************)
(* switch_to_aces and switch_to_default                                    *)
(***************************************************************************)
\* switch_to_aces, "Ensure ACES is installed"
EnsureInstalled(cfg, prefSet) ==
  IF IsAcesInstalled(cfg)
  THEN {[ok |-> TRUE, msg |-> NoMsg, config |-> cfg, attempts |-> << >>]}
  ELSE InstallLoopTable[<<prefSet, cfg>>]

\* A backup step that runs after the override was set to the ACES path: it
\* finds nothing to back up.
AcesBackupAfterSet(cur, cfg, found, fs, file, t) ==
  {NoBackup("none", "notcalled", fs, file)}

\* A backup step that does not compare the override with the ACES path.
AcesBackupAlways(cur, cfg, found, fs, file, t) ==
  IF cur # NoPath
  THEN BackupCurrentOverride(cur, cfg, fs, file, t)
  ELSE BackupDefaultConfig(found, fs, file, t)

\* A backup step that backs the host default up when no override is set.
DefaultBackupAlways(cur, cfg, fs, file, t) ==
  IF cur # NoPath
  THEN BackupCurrentOverride(cur, cfg, fs, file, t)
  ELSE BackupDefaultConfig(TRUE, fs, file, t)

\* switch_to_aces, "Backup if switching from a different override"
AcesBackup(cur, cfg, found, fs, file, t) ==
  IF cur # NoPath
  THEN IF NormPath(cur) # NormPath(AcesConfigPath)
       THEN BackupCurrentOverride(cur, cfg, fs, file, t)
       ELSE {NoBackup("none", "notcalled", fs, file)}
  ELSE BackupDefaultConfig(found, fs, file, t)

\* switch_to_default, "Backup the current override before removing"
DefaultBackup(cur, cfg, fs, file, t) ==
  IF cur # NoPath
  THEN BackupCurrentOverride(cur, cfg, fs, file, t)
  ELSE {NoBackup("none", "notcalled", fs, file)}

Ret(name, ok, msg, restart) ==
  [op |-> name, ok |-> ok, msg |-> msg, restart |-> restart]

SwitchToAces(auto) ==
  /\ \E loop \in EnsureInstalled(config, acesRepoPref) :
       /\ config' = loop.config
       /\ attempts' = loop.attempts
       /\ IF ~loop.ok
          THEN /\ result' = Ret("switch_to_aces", FALSE, loop.msg, FALSE)
               /\ lastBackup' = [which |-> "none", outcome |-> "notcalled"]
               /\ UNCHANGED <<pref, env, backupFs, stateFile>>
          ELSE \E b \in AcesBackup(GetOverride(hostApi, pref, env), loop.config,
                                   hasDefaultConfig, backupFs, stateFile, now) :
                 /\ backupFs' = b.fs
                 /\ stateFile' = b.file
                 /\ lastBackup' = [which |-> b.which, outcome |-> b.outcome]
                 /\ pref' = SetOverride(hostApi, pref, env, AcesConfigPath).pref
                 /\ env' = SetOverride(hostApi, pref, env, AcesConfigPath).env
                 /\ result' = Ret("switch_to_aces", TRUE,
                                  Msg(IF auto THEN "Switched to ACES and restarting Blender"
                                      ELSE "Switched to ACES; restart Blender to apply fully", -1),
                                  auto)
  /\ UNCHANGED <<hostVars, restVars, now, opVars, callVars, checkVars, threadVars>>

SwitchToDefault(auto) ==
  /\ \E b \in DefaultBackup(GetOverride(hostApi, pref, env), config, backupFs, stateFile, now) :
       /\ backupFs' = b.fs
       /\ stateFile' = b.file
       /\ lastBackup' = [which |-> b.which, outcome |-> b.outcome]
  /\ pref' = ClearOverride(hostApi, pref, env).pref
  /\ env' = ClearOverride(hostApi, pref, env).env
  /\ result' = Ret("switch_to_default", TRUE,
                   Msg(IF auto THEN "Switched to Blender default and restarting Blender"
                       ELSE "Switched to Blender default; restart Blender to apply", -1),
                   auto)
  /\ attempts' = << >>
  /\ UNCHANGED <<hostVars, restVars, now, config, opVars, callVars, checkVars, threadVars>>

\* A second of wall-clock time passes.
Tick ==
  /\ now < MaxTime
  /\ now' = now + 1
  /\ UNCHANGED <<hostVars, restVars, pref, env, config, backupFs, stateFile,
                 result, attempts, lastBackup, opVars, callVars, checkVars, threadVars>>

(***************************************************************************)
(* The install operator BAM_OT_install_aces, its background thread, its    *)
(* modal handler and bam.cancel_install.                                   *)
(***************************************************************************)
Threads == {1, 2}

CancelledMsg == Msg("Installation cancelled by user", -1)

FailureKinds == {"Download failed", "Extraction failed", "Could not find config.ocio",
                 "Downloaded config appears incompatible", "Failed to stage ACES config"}

IdleOp == [is_installing |-> FALSE, installation_complete |-> FALSE,
           installation_success |-> FALSE, installation_message |-> NoMsg]

NoReport == [level |-> "", msg |-> NoMsg]

\* BAM_OT_install_aces.execute: refused while is_installing; starts a thread.
InstallExecute(t) ==
  /\ ~op.is_installing
  /\ tpc[t] = "idle"
  /\ op' = [is_installing |-> TRUE, installation_complete |-> FALSE,
            installation_success |-> FALSE, installation_message |-> NoMsg]
  /\ modal' = TRUE
  /\ reported' = NoReport
  /\ cancelled' = FALSE
  /\ tpc' = [tpc EXCEPT ![t] = "call"]
  /\ turl' = [turl EXCEPT ![t] = 1]
  /\ terr' = [terr EXCEPT ![t] = NoMsg]
  /\ ttried' = [ttried EXCEPT ![t] = << >>]
  /\ UNCHANGED <<hostVars, restVars, config, switchVars, callVars, checkVars>>

\* The end of a call that failed with msg: last_error = msg, and the loop
\* goes to the next source or, after the last one, to its else branch.
FailReturn(t, msg) ==
  /\ terr' = [terr EXCEPT ![t] = msg]
  /\ ttried' = [ttried EXCEPT ![t] = Append(@, [url |-> Urls(acesRepoPref)[turl[t]], ok |-> FALSE])]
  /\ IF turl[t] < Len(Urls(acesRepoPref))
     THEN /\ turl' = [turl EXCEPT ![t] = @ + 1]
          /\ tpc' = [tpc EXCEPT ![t] = "call"]
     ELSE /\ turl' = turl
          /\ tpc' = [tpc EXCEPT ![t] = "fail_success"]

\* install_aces_from_zip_url begins: the aces directory is cleaned.
ThreadClean(t) ==
  /\ tpc[t] = "call"
  /\ \E c \in CleanOutcomes(config) : config' = c.config
  /\ tpc' = [tpc EXCEPT ![t] = "fetch"]
  /\ UNCHANGED <<hostVars, restVars, switchVars, opVars, callVars, checkVars, turl, terr, ttried>>

\* A pipeline that copies the located profile to aces/config before it looks
\* at its compatibility.
ThreadFetchStagesFirst(t) ==
  /\ tpc[t] = "fetch"
  /\ \E archive \in ArchiveKinds :
       IF FetchFailure(archive) # ""
       THEN /\ FailReturn(t, Msg(FetchFailure(archive), Urls(acesRepoPref)[turl[t]]))
            /\ config' = IF IsIncompatible(archive) THEN ProfileFiles ELSE config
       ELSE /\ tpc' = [tpc EXCEPT ![t] = "stage"]
            /\ config' = config
            /\ UNCHANGED <<turl, terr, ttried>>
  /\ UNCHANGED <<hostVars, restVars, switchVars, opVars, callVars, checkVars>>

\* Download, extraction, lookup of config.ocio and compatibility check.
ThreadFetch(t) ==
  /\ tpc[t] = "fetch"
  /\ \E archive \in ArchiveKinds :
       IF FetchFailure(archive) # ""
       THEN FailReturn(t, Msg(FetchFailure(archive), Urls(acesRepoPref)[turl[t]]))
       ELSE /\ tpc' = [tpc EXCEPT ![t] = "stage"]
            /\ UNCHANGED <<turl, terr, ttried>>
  /\ UNCHANGED <<hostVars, restVars, config, switchVars, opVars, callVars, checkVars>>

\* Staging begins: an existing aces/config is removed; the removal may raise
\* and leave the files it had not deleted.
ThreadStage(t) ==
  /\ tpc[t] = "stage"
  /\ \/ /\ config' = NoProfile
        /\ tpc' = [tpc EXCEPT ![t] = "copy"]
        /\ UNCHANGED <<turl, terr, ttried>>
     \/ /\ \E part \in (SUBSET config) \ {NoProfile} : config' = part
        /\ FailReturn(t, Msg("Failed to stage ACES config", Urls(acesRepoPref)[turl[t]]))
  /\ UNCHANGED <<hostVars, restVars, switchVars, opVars, callVars, checkVars>>

\* copytree copies one more file, or raises.
ThreadCopy(t) ==
  /\ tpc[t] = "copy"
  /\ \/ /\ \E f \in ProfileFiles \ config : config' = config \cup {f}
        /\ UNCHANGED <<tpc, turl, terr, ttried>>
     \/ /\ config' = config
        /\ FailReturn(t, Msg("Failed to stage ACES config", Urls(acesRepoPref)[turl[t]]))
  /\ UNCHANGED <<hostVars, restVars, switchVars, opVars, callVars, checkVars>>

\* The copy is complete: the call returns (True, ...), the loop breaks.
ThreadInstalled(t) ==
  /\ tpc[t] = "copy"
  /\ config = ProfileFiles
  /\ ttried' = [ttried EXCEPT ![t] = Append(@, [url |-> Urls(acesRepoPref)[turl[t]], ok |-> TRUE])]
  /\ tpc' = [tpc EXCEPT ![t] = "ok_success"]
  /\ UNCHANGED <<hostVars, restVars, config, switchVars, opVars, callVars, checkVars, turl, terr>>

\* self.installation_success = True / False
ThreadWriteSuccess(t) ==
  /\ tpc[t] \in {"ok_success", "fail_success"}
  /\ op' = [op EXCEPT !.installation_success = (tpc[t] = "ok_success")]
  /\ tpc' = [tpc EXCEPT ![t] = IF tpc[t] = "ok_success" THEN "ok_message" ELSE "fail_message"]
  /\ UNCHANGED <<hostVars, restVars, config, switchVars, modal, reported, cancelled,
                 callVars, checkVars, turl, terr, ttried>>

\* self.installation_message = msg / last_error
ThreadWriteMessage(t) ==
  /\ tpc[t] \in {"ok_message", "fail_message"}
  /\ op' = [op EXCEPT !.installation_message =
              IF tpc[t] = "ok_message"
              THEN Msg("ACES configuration installed", Urls(acesRepoPref)[turl[t]])
              ELSE terr[t]]
  /\ tpc' = [tpc EXCEPT ![t] = "complete"]
  /\ UNCHANGED <<hostVars, restVars, config, switchVars, modal, reported, cancelled,
                 callVars, checkVars, turl, terr, ttried>>

\* finally: self.installation_complete = True; the thread ends.
ThreadComplete(t) ==
  /\ tpc[t] = "complete"
  /\ op' = [op EXCEPT !.installation_complete = TRUE]
  /\ tpc' = [tpc EXCEPT ![t] = "idle"]
  /\ UNCHANGED <<hostVars, restVars, config, switchVars, modal, reported, cancelled,
                 callVars, checkVars, turl, terr, ttried>>

\* An exception that skips the finally clause: the thread just ends.
ThreadPrefsRaiseUncaught(t) ==
  /\ tpc[t] = "call"
  /\ ttried[t] = << >>
  /\ turl[t] = 1
  /\ tpc' = [tpc EXCEPT ![t] = "idle"]
  /\ UNCHANGED <<hostVars, restVars, config, switchVars, opVars, callVars, checkVars,
                 turl, terr, ttried>>

\* get_addon_prefs() or the reading of aces_repo_preference raises before the
\* loop: the outer handler sets installation_success = False and the
\* message "Installation error: ...", then the finally clause runs.
ThreadPrefsRaise(t) ==
  /\ tpc[t] = "call"
  /\ ttried[t] = << >>
  /\ turl[t] = 1
  /\ terr' = [terr EXCEPT ![t] = Msg("Installation error", -1)]
  /\ tpc' = [tpc EXCEPT ![t] = "fail_success"]
  /\ UNCHANGED <<hostVars, restVars, config, switchVars, opVars, callVars, checkVars,
                 turl, ttried>>

\* install_aces_from_zip_url raises: last_error = str(e), and the loop goes on.
ThreadCallRaise(t) ==
  /\ tpc[t] = "fetch"
  /\ FailReturn(t, Msg("raised", Urls(acesRepoPref)[turl[t]]))
  /\ UNCHANGED <<hostVars, restVars, config, switchVars, opVars, callVars, checkVars>>

\* modal, on ESC
ModalEsc ==
  /\ modal
  /\ op' = [op EXCEPT !.is_installing = FALSE]
  /\ modal' = FALSE
  /\ UNCHANGED <<hostVars, restVars, config, switchVars, reported, cancelled, callVars, checkVars, threadVars>>

\* modal, on any other event once installation_complete is set
ModalTick ==
  /\ modal
  /\ op.installation_complete
  /\ reported' = [level |-> IF op.installation_success THEN "INFO" ELSE "ERROR",
                  msg |-> op.installation_message]
  /\ op' = [op EXCEPT !.is_installing = FALSE]
  /\ modal' = FALSE
  /\ UNCHANGED <<hostVars, restVars, config, switchVars, cancelled, callVars, checkVars, threadVars>>

\* BAM_OT_cancel_install.execute
CancelInstall ==
  /\ op.is_installing
  /\ op' = [is_installing |-> FALSE, installation_complete |-> TRUE,
            installation_success |-> FALSE, installation_message |-> CancelledMsg]
  /\ cancelled' = TRUE
  /\ UNCHANGED <<hostVars, restVars, config, switchVars, modal, reported, callVars, checkVars, threadVars>>

(***************************************************************************)
(* The update check: check_addon_update from the UI operator, and the one   *)
(* scheduled at register, which runs in a background thread.               *)
(***************************************************************************)
\* BAM_OT_check_update.execute, on the UI thread
CheckAddonUpdate ==
  /\ \E info \in ReleaseInfos :
       /\ checkRet' = UpdateResult(info, now)
       /\ stateFile' = SaveState(SetUpdate(LoadState(stateFile), UpdateResult(info, now)))
  /\ UNCHANGED <<hostVars, dlVars, verVars, releaseCall, restartCall, percent, pipe, locate, repack, addonUpdate, uninstallOp, incompat, config, pref, env, now, backupFs, result,
                 attempts, lastBackup, opVars, callVars, threadVars, checkVars>>

\* _bg: the thread asks for the latest release and builds its result.
BgFetch ==
  /\ ucPc = "idle"
  /\ \E info \in ReleaseInfos :
       ucLocal' = SetUpdate(EmptyState, UpdateResult(info, now))
  /\ ucPc' = "fetched"
  /\ UNCHANGED <<hostVars, restVars, config, switchVars, opVars, callVars, threadVars>>

\* state = load_state(); state["update"] = result
BgLoad ==
  /\ ucPc = "fetched"
  /\ ucLocal' = SetUpdate(LoadState(stateFile), ucLocal.update)
  /\ ucPc' = "loaded"
  /\ UNCHANGED <<hostVars, restVars, config, switchVars, opVars, callVars, threadVars>>

\* save_state(state): the file is rewritten, or the open raises and it stays,
\* or the write is cut short and the file no longer parses.  The update
\* check runs once.
BgSave ==
  /\ ucPc = "loaded"
  /\ stateFile' \in {SaveState(ucLocal), stateFile, CorruptFile}
  /\ ucPc' = "done"
  /\ UNCHANGED <<hostVars, restVars, config, pref, env, now, backupFs, result, attempts,
                 lastBackup, opVars, callVars, threadVars, ucLocal>>

(***************************************************************************)
(* download_zip and DownloadProgress.  The download is MaxBlocks blocks    *)
(* long; urlretrieve calls the report hook once before the first block and *)
(* once after each block.                                                  *)
(***************************************************************************)
\* Blocks of the downloaded archive.
MaxBlocks == 3

\* The throttle of update_progress, 0.1 s, in milliseconds.
ThrottleMs == 100

\* time.time() when a download begins, in milliseconds.
EpochNow == 1000

\* Milliseconds that can pass between two calls of the report hook.
ClockSteps == {0, 50, 100, 150}

AbsentFile == [kind |-> "absent", blocks |-> 0]
OldFile == [kind |-> "old", blocks |-> 0]
PartialFile(k) == [kind |-> "partial", blocks |-> k]
CompleteFile == [kind |-> "complete", blocks |-> MaxBlocks]

\* A report hook that never waits.
NoThrottle(cur, last) == TRUE

\* (current_time - self.last_update_time) > 0.1
ThrottlePassed(cur, last) == cur - last > ThrottleMs

\* DownloadProgress.update_progress: whether the callback is invoked.
UpdateProgressInvokes(total, hasCb, cur, last) ==
  total > 0 /\ hasCb /\ ThrottlePassed(cur, last)

\* The report hook called at time cur.
ReportHook(cur) ==
  IF UpdateProgressInvokes(dlTotal, dlCb, cur, lastUpdate)
  THEN /\ cbTimes' = Append(cbTimes, cur)
       /\ lastUpdate' = cur
  ELSE UNCHANGED <<cbTimes, lastUpdate>>

\* download_zip begins: mkstemp makes an empty temporary file, a fresh
\* DownloadProgress is made.
DownloadStart ==
  /\ dlPc = "idle"
  /\ dlPc' = "open"
  /\ dlTmp' = 0
  /\ lastUpdate' = 0
  /\ UNCHANGED <<exceptDl, dlDest, dlDestOld, dlSameFs, dlTotal, dlRaised, dlCb,
                 clock, cbTimes>>

\* urlretrieve opens the URL and calls the hook with block 0, or raises.
DownloadOpen ==
  /\ dlPc = "open"
  /\ \/ /\ dlPc' = "fetch"
        /\ ReportHook(clock)
        /\ UNCHANGED dlRaised
     \/ /\ dlPc' = "cleanup"
        /\ dlRaised' = TRUE
        /\ UNCHANGED <<cbTimes, lastUpdate>>
  /\ UNCHANGED <<exceptDl, dlTmp, dlDest, dlDestOld, dlSameFs, dlTotal, dlCb, clock>>

\* urlretrieve reads a block, writes it and calls the hook; or the read raises.
DownloadBlock ==
  /\ dlPc = "fetch"
  /\ dlTmp < MaxBlocks
  /\ \/ \E d \in ClockSteps :
          /\ clock' = clock + d
          /\ dlTmp' = dlTmp + 1
          /\ ReportHook(clock + d)
          /\ UNCHANGED <<dlPc, dlRaised>>
     \/ /\ dlPc' = "cleanup"
        /\ dlRaised' = TRUE
        /\ UNCHANGED <<clock, dlTmp, cbTimes, lastUpdate>>
  /\ UNCHANGED <<exceptDl, dlDest, dlDestOld, dlSameFs, dlTotal, dlCb>>

\* shutil.move(tmp_path, dest_zip_path): os.rename when both are on one file
\* system; otherwise the destination is opened for writing and the
\* temporary file is copied into it.
DownloadMove ==
  /\ dlPc = "fetch"
  /\ dlTmp = MaxBlocks
  /\ IF dlSameFs
     THEN /\ dlDest' = CompleteFile
          /\ dlTmp' = -1
          /\ dlPc' = "cleanup"
     ELSE /\ dlDest' = PartialFile(0)
          /\ dlTmp' = dlTmp
          /\ dlPc' = "copy"
  /\ UNCHANGED <<exceptDl, dlDestOld, dlSameFs, dlTotal, dlRaised, dlCb,
                 clock, lastUpdate, cbTimes>>

\* The copy of shutil.move writes one more block, and after the last one
\* unlinks the temporary file; or it raises.
DownloadCopy ==
  /\ dlPc = "copy"
  /\ \/ /\ dlDest' = (IF dlDest.blocks + 1 = MaxBlocks THEN CompleteFile
                       ELSE PartialFile(dlDest.blocks + 1))
        /\ dlPc' = (IF dlDest.blocks + 1 = MaxBlocks THEN "cleanup" ELSE "copy")
        /\ dlTmp' = (IF dlDest.blocks + 1 = MaxBlocks THEN -1 ELSE dlTmp)
        /\ UNCHANGED dlRaised
     \/ /\ dlPc' = "cleanup"
        /\ dlRaised' = TRUE
        /\ UNCHANGED <<dlDest, dlTmp>>
  /\ UNCHANGED <<exceptDl, dlDestOld, dlSameFs, dlTotal, dlCb, clock, lastUpdate, cbTimes>>

\* finally: the temporary file is removed if it exists; a failing removal
\* is swallowed.
DownloadCleanup ==
  /\ dlPc = "cleanup"
  /\ dlTmp' \in {-1, dlTmp}
  /\ dlPc' = "done"
  /\ UNCHANGED <<exceptDl, dlDest, dlDestOld, dlSameFs, dlTotal, dlRaised, dlCb,
                 clock, lastUpdate, cbTimes>>

\* No download has begun.
InitDownloadIdle ==
  /\ dlPc = "idle"
  /\ dlTmp = -1
  /\ dlRaised = FALSE
  /\ clock = EpochNow
  /\ lastUpdate = 0
  /\ cbTimes = << >>

\* Outside a download.
NoDownload ==
  /\ InitDownloadIdle
  /\ dlDest = AbsentFile
  /\ dlDestOld = AbsentFile
  /\ dlSameFs = TRUE
  /\ dlTotal = -1
  /\ dlCb = FALSE

InitProgOn(apis) ==
  /\ hostApi \in apis
  /\ hasDefaultConfig \in BOOLEAN
  /\ acesRepoPref \in BOOLEAN
  /\ \E o \in OverridePaths :
       IF hostApi = "env" THEN env = o /\ pref = NoPath ELSE pref = o /\ env = NoPath
  /\ config \in {NoProfile, ProfileFiles}
  /\ now = 0
  /\ backupFs = {}
  /\ stateFile = MissingFile
  /\ result = [op |-> "", ok |-> TRUE, msg |-> NoMsg, restart |-> FALSE]
  /\ attempts = << >>
  /\ lastBackup = [which |-> "none", outcome |-> "notcalled"]
  /\ op = IdleOp
  /\ modal = FALSE
  /\ reported = NoReport
  /\ cancelled = FALSE
  /\ tpc = [t \in Threads |-> "idle"]
  /\ turl = [t \in Threads |-> 1]
  /\ terr = [t \in Threads |-> NoMsg]
  /\ callPre = NoProfile
  /\ callRet = NoCall
  /\ ttried = [t \in Threads |-> << >>]
  /\ ucPc = "idle"
  /\ ucLocal = EmptyState
  /\ checkRet = NoUpdate

\* A host whose preference can be written, or that has none.
InitProg == InitProgOn({"pref", "env"})

\* No version check on its own.
NoVersionCheck ==
  /\ verPc = "idle"
  /\ verTag = << >>
  /\ verRunning = CurrentVersion
  /\ verOut = NoUpdate

\* The version check on its own: check_addon_update's result for the tag
\* verTag of the latest release and the running version verRunning.
CheckVersion ==
  /\ verPc = "idle"
  /\ verPc' = "done"
  /\ verOut' = UpdateResultFor(Release(verTag), verRunning, 0)
  /\ UNCHANGED <<exceptVer, verTag, verRunning>>

(***************************************************************************)
(* is_config_potentially_incompatible.  A profile text is the lines chosen *)
(* from ProfileLines, in their order, each ended by a newline.             *)
(***************************************************************************)
ProfileLines == <<
    <<"r", "o", "l", "e", "s", ":">>,
    <<" ", " ", "X", "Y", "Z", ":", " ", "l", "i", "n", "_", "x", "y",
    "z">>,
    <<"d", "e", "s", "c", "r", "i", "p", "t", "i", "o", "n", ":", " ",
    "C", "I", "E", " ", "X", "Y", "Z", ":", " ", "D", "6", "0">>,
    <<"n", "a", "m", "e", ":", " ", "X", "Y", "Z">>,
    <<"n", "a", "m", "e", ":", " ", "X", "Y", "Z", " ", "-", " ", "D",
    "6", "0">>,
    <<"n", "a", "m", "e", ":", " ", "s", "R", "G", "B">>>>

\* The lines of ProfileLines by what they are.
RolesLine == 1
RoleXyzLine == 2
DescriptionLine == 3
NameXyzLine == 4
NameXyzD60Line == 5
NameSrgbLine == 6

RECURSIVE ProfileTextFrom(_, _)
ProfileTextFrom(chosen, i) ==
  IF i > Len(ProfileLines) THEN << >>
  ELSE (IF i \in chosen THEN ProfileLines[i] \o <<"\n">> ELSE << >>)
         \o ProfileTextFrom(chosen, i + 1)

\* content = f.read()
ProfileText(chosen) == ProfileTextFrom(chosen, 1)

\* pat in content
ContainsStr(content, pat) ==
  \E i \in 1..(Len(content) - Len(pat) + 1) : SubSeq(content, i, i + Len(pat) - 1) = pat

\* is_config_potentially_incompatible on a file with this content; an
\* unreadable file raises and gives False.
IsConfigPotentiallyIncompatible(content, readable) ==
  IF ~readable THEN FALSE
  ELSE LET has_role_xyz ==
             ContainsStr(content, <<"r", "o", "l", "e", "s", ":">>)
               /\ ContainsStr(content, <<"X", "Y", "Z", ":">>)
           has_colorspace_named_xyz ==
             ContainsStr(content, <<"n", "a", "m", "e", ":">>)
               /\ ContainsStr(content, <<"n", "a", "m", "e", ":", " ", "X", "Y", "Z">>)
       IN  has_role_xyz /\ has_colorspace_named_xyz

NoIncompatCall == incompat = [pc |-> "idle", lines |-> {}, readable |-> TRUE, out |-> FALSE]

IncompatCall ==
  /\ incompat.pc = "idle"
  /\ incompat' = [incompat EXCEPT
                    !.pc = "done",
                    !.out = IsConfigPotentiallyIncompatible(ProfileText(incompat.lines),
                                                            incompat.readable)]
  /\ UNCHANGED exceptIncompat

(***************************************************************************)
(* The uninstall operator.                                                 *)
(***************************************************************************)
\* What bpy.ops.bam.confirm_uninstall_aces('INVOKE_DEFAULT') gives back: a set
\* of status names, unless it raises.
ConfirmOutcomes == {{"FINISHED"}, {"CANCELLED"}, {"RUNNING_MODAL"}}

\* confirm_uninstall: the set as a truth value, True when the call raised.
ConfirmUninstall(raised, c) == IF raised THEN TRUE ELSE c # {}

\* utils defines no uninstall_aces: looking the attribute up raises.
UtilsDefinesUninstallAces == FALSE

NoUninstall == uninstallOp = [ret |-> "", report |-> NoReport]

\* An execute that does not ask is_using_aces().
UninstallExecuteUnguarded ==
  /\ \E raised \in BOOLEAN, c \in ConfirmOutcomes :
       IF ~ConfirmUninstall(raised, c)
       THEN uninstallOp' = [ret |-> "CANCELLED", report |-> uninstallOp.report]
       ELSE /\ ~UtilsDefinesUninstallAces
            /\ uninstallOp' = [ret |-> "CANCELLED",
                               report |-> [level |-> "ERROR",
                                           msg |-> Msg("Uninstall failed: module has no attribute 'uninstall_aces'", -1)]]
  /\ UNCHANGED <<progVars, exceptUninstall>>

\* BAM_OT_uninstall_aces.execute
UninstallExecute ==
  /\ IF IsUsingAces(hostApi, pref, env)
     THEN uninstallOp' = [ret |-> "CANCELLED",
                          report |-> [level |-> "ERROR",
                                      msg |-> Msg("Cannot uninstall ACES while it's active. Switch to default first.", -1)]]
     ELSE \E raised \in BOOLEAN, c \in ConfirmOutcomes :
            IF ~ConfirmUninstall(raised, c)
            THEN uninstallOp' = [ret |-> "CANCELLED", report |-> uninstallOp.report]
            ELSE /\ ~UtilsDefinesUninstallAces
                 /\ uninstallOp' = [ret |-> "CANCELLED",
                                    report |-> [level |-> "ERROR",
                                                msg |-> Msg("Uninstall failed: module has no attribute 'uninstall_aces'", -1)]]
  /\ UNCHANGED <<progVars, exceptUninstall>>

(***************************************************************************)
(* install_addon_from_zip: the install step and the enabling of the add-on.*)
(* Module names are tuples of characters.                                  *)
(***************************************************************************)
\* __package__ of a legacy add-on, and of an extension
LegacyModule ==
    <<"b", "l", "e", "n", "d", "e", "r", "_", "a", "c", "e", "s", "_",
    "m", "a", "n", "a", "g", "e", "r">>
ExtensionModule ==
    <<"b", "l", "_", "e", "x", "t", ".", "u", "s", "e", "r", "_", "d",
    "e", "f", "a", "u", "l", "t", ".", "b", "l", "e", "n", "d", "e", "r",
    "_", "a", "c", "e", "s", "_", "m", "a", "n", "a", "g", "e", "r">>
\* another copy of the add-on, and an unrelated add-on
LegacyCopyModule ==
    <<"b", "l", "e", "n", "d", "e", "r", "_", "a", "c", "e", "s", "_",
    "m", "a", "n", "a", "g", "e", "r", "_", "o", "l", "d">>
OtherModule ==
    <<"i", "o", "_", "s", "c", "e", "n", "e", "_", "o", "b", "j">>

\* f"bl_ext.user_default.{name}"
Qualified(name) ==
    <<"b", "l", "_", "e", "x", "t", ".", "u", "s", "e", "r", "_", "d",
    "e", "f", "a", "u", "l", "t", ".">>
      \o name

\* module_name.split('.')[0]
BaseOf(name) == SplitDot(name)[1]

\* mod_name.startswith(base)
StartsWith(name, base) ==
  Len(base) <= Len(name) /\ SubSeq(name, 1, Len(base)) = base

\* The keys of preferences.addons the scan tries: mod_name == base or
\* mod_name.startswith(base).
ScanMatches(registered, base) ==
  {m \in registered : m = base \/ StartsWith(m, base)}

\* The second mechanism is skipped once enable_ok is set.
ExtensionStepAlways(u) == u.has_extension_enable

\* if not enable_ok and hasattr(_bpy.ops.preferences, 'extension_enable')
ExtensionStepRuns(u) == ~u.enable_ok /\ u.has_extension_enable

InstalledNotEnabledMsg == "Installed, but could not enable the add-on automatically. Please enable it in Preferences/Extensions."

NoAddonUpdate ==
  addonUpdate = [pc |-> "idle", module_name |-> LegacyModule,
                 has_extension_enable |-> FALSE, registered |-> {},
                 addon_enables |-> {}, extension_enables |-> {},
                 enable_ok |-> FALSE, tried |-> << >>,
                 ret |-> [ok |-> FALSE, msg |-> ""]]

\* The install step: extension_install for an extension package when the host
\* has the operator, else addon_install; addon_install again when that raised.
AddonInstallStep ==
  /\ addonUpdate.pc = "install"
  /\ \E is_extension_package, has_extension_install, first_raises, fallback_raises \in BOOLEAN :
       IF first_raises /\ fallback_raises
       THEN addonUpdate' = [addonUpdate EXCEPT !.pc = "done",
                              !.ret = [ok |-> FALSE, msg |-> "Install failed"]]
       ELSE addonUpdate' = [addonUpdate EXCEPT !.pc = "enable1"]
  /\ UNCHANGED exceptAddonUpdate

\* 1) addon_enable(module=module_name)
AddonEnableDirect ==
  /\ addonUpdate.pc = "enable1"
  /\ addonUpdate' = [addonUpdate EXCEPT
                       !.pc = "enable2",
                       !.tried = Append(@, 1),
                       !.enable_ok = addonUpdate.module_name \in addonUpdate.addon_enables]
  /\ UNCHANGED exceptAddonUpdate

\* 2) extension_enable(module=module_name), then the qualified name
AddonEnableExtension ==
  /\ addonUpdate.pc = "enable2"
  /\ IF ExtensionStepRuns(addonUpdate)
     THEN addonUpdate' = [addonUpdate EXCEPT
                            !.pc = "enable3",
                            !.tried = Append(@, 2),
                            !.enable_ok =
                               \/ addonUpdate.module_name \in addonUpdate.extension_enables
                               \/ Qualified(addonUpdate.module_name) \in addonUpdate.extension_enables]
     ELSE addonUpdate' = [addonUpdate EXCEPT !.pc = "enable3"]
  /\ UNCHANGED exceptAddonUpdate

\* 3) the scan of preferences.addons, then extension_enable of the qualified base
AddonEnableScan ==
  /\ addonUpdate.pc = "enable3"
  /\ IF ~addonUpdate.enable_ok
     THEN LET base == BaseOf(addonUpdate.module_name)
              scanned == \E m \in ScanMatches(addonUpdate.registered, base) :
                           m \in addonUpdate.addon_enables
          IN  addonUpdate' = [addonUpdate EXCEPT
                                !.pc = "return",
                                !.tried = Append(@, 3),
                                !.enable_ok =
                                   \/ scanned
                                   \/ /\ addonUpdate.has_extension_enable
                                      /\ Qualified(base) \in addonUpdate.extension_enables]
     ELSE addonUpdate' = [addonUpdate EXCEPT !.pc = "return"]
  /\ UNCHANGED exceptAddonUpdate

\* save_userpref, then the return value
AddonUpdateReturn ==
  /\ addonUpdate.pc = "return"
  /\ addonUpdate' = [addonUpdate EXCEPT
                       !.pc = "done",
                       !.ret = IF ~addonUpdate.enable_ok
                               THEN [ok |-> FALSE, msg |-> InstalledNotEnabledMsg]
                               ELSE [ok |-> TRUE, msg |-> "Add-on updated"]]
  /\ UNCHANGED exceptAddonUpdate

(***************************************************************************)
(* install_addon_from_zip: the inspection of the archive and the repack.   *)
(* An archive is the set of its entries; an entry has the components of    *)
(* its name, whether it is a directory entry (its name ends in "/"), and   *)
(* its contents.                                                           *)
(***************************************************************************)
Desired == "blender_aces_manager"
MacosxDir == "__MACOSX"

FileEntry(path, data) == [path |-> path, dir |-> FALSE, data |-> data]
DirEntry(path) == [path |-> path, dir |-> TRUE, data |-> 0]

\* n.startswith("__MACOSX/")
StartsWithMacosx(e) == e.path[1] = MacosxDir /\ (Len(e.path) > 1 \/ e.dir)

\* Every entry counts, the ones below __MACOSX too.
TopLevelsAll(names) == {e.path[1] : e \in names}

\* top_levels: parts[0] of every name that does not start with "__MACOSX/"
TopLevels(names) == {e.path[1] : e \in {n \in names : ~StartsWithMacosx(n)}}

\* extract_dir/top is a directory after extractall
IsExtractedDir(names, top) ==
  \E e \in names : e.path[1] = top /\ (Len(e.path) > 1 \/ e.dir)

\* arcname relative to out_dir: the files land at the top of the archive.
RepackedFlat(names, top) ==
  {FileEntry(Tail(e.path), e.data) :
     e \in {n \in names : ~n.dir /\ n.path[1] = top /\ Len(n.path) > 1}}

\* repacked.zip: the files below extract_dir/top, copied to out_dir and
\* written with their path relative to work_dir.
Repacked(names, top) ==
  {FileEntry(<<Desired>> \o Tail(e.path), e.data) :
     e \in {n \in names : ~n.dir /\ n.path[1] = top /\ Len(n.path) > 1}}

\* zip_for_install
ZipForInstall(names, io_fails) ==
  LET top_levels == TopLevels(names)
      top == CHOOSE t \in top_levels : TRUE
  IN  IF Cardinality(top_levels) = 1 /\ top # Desired
         /\ ~io_fails /\ IsExtractedDir(names, top)
      THEN [repacked |-> TRUE, names |-> Repacked(names, top)]
      ELSE [repacked |-> FALSE, names |-> names]

NoRepack ==
  repack = [pc |-> "idle", names |-> {}, io_fails |-> FALSE,
            out |-> [repacked |-> FALSE, names |-> {}]]

RepackStep ==
  /\ repack.pc = "inspect"
  /\ repack' = [repack EXCEPT !.pc = "install",
                               !.out = ZipForInstall(repack.names, repack.io_fails)]
  /\ UNCHANGED exceptRepack

(***************************************************************************)
(* install_aces_from_zip_url from the extracted tree on: find_config_ocio, *)
(* the compatibility test and the staging.  A tree is the set of its       *)
(* files, a file the tuple of the components of its path below the root.   *)
(***************************************************************************)
MarkerName == "config.ocio"

\* The directory of a file, and the path of a file below a directory.
ParentOf(f) == SubSeq(f, 1, Len(f) - 1)
IsBelow(f, dir) == Len(f) > Len(dir) /\ SubSeq(f, 1, Len(dir)) = dir
RelativeTo(f, dir) == SubSeq(f, Len(dir) + 1, Len(f))

\* The directories with "config.ocio" in files
MarkerDirs(tree) == {ParentOf(f) : f \in {g \in tree : g[Len(g)] = MarkerName}}

NotFound == [found |-> FALSE, dir |-> << >>]

\* Only the files of root_dir itself are looked at.
FindAtRootOnly(tree) ==
  IF << >> \in MarkerDirs(tree) THEN {[found |-> TRUE, dir |-> << >>]} ELSE {NotFound}

\* find_config_ocio: os.walk visits a directory before the directories below
\* it and the directories of one level in the order the file system lists
\* them, so the first hit is any marker directory with none above it.
FindConfigOcioWalk(tree) ==
  IF MarkerDirs(tree) = {} THEN {NotFound}
  ELSE {[found |-> TRUE, dir |-> d] :
          d \in {m \in MarkerDirs(tree) :
                   \A a \in MarkerDirs(tree) : ~IsBelow(m \o <<MarkerName>>, a) \/ a = m}}

\* shutil.copytree(config_dir, final_config_dir): the files of aces/config
CopyOfDir(tree, dir) == {RelativeTo(f, dir) : f \in {g \in tree : IsBelow(g, dir)}}

NoLocate ==
  locate = [pc |-> "idle", tree |-> {}, lines |-> {}, copy_fails |-> FALSE,
            prior |-> {}, final |-> {}, config_dir |-> NotFound,
            ret |-> [ok |-> FALSE, dir |-> "", msg |-> ""]]

\* config_dir = find_config_ocio(extract_root)
LocateStep ==
  /\ locate.pc = "locate"
  /\ \E c \in FindConfigOcioWalk(locate.tree) :
       locate' = [locate EXCEPT
                    !.config_dir = c,
                    !.pc = IF c.found THEN "compat" ELSE "done",
                    !.ret = IF c.found THEN @
                            ELSE [ok |-> FALSE, dir |-> "",
                                  msg |-> "Could not find config.ocio in the downloaded archive"]]
  /\ UNCHANGED exceptLocate

\* is_config_potentially_incompatible(config_file)
CompatStep ==
  /\ locate.pc = "compat"
  /\ IF IsConfigPotentiallyIncompatible(ProfileText(locate.lines), TRUE)
     THEN locate' = [locate EXCEPT
                       !.pc = "done",
                       !.ret = [ok |-> FALSE, dir |-> "",
                                msg |-> "Downloaded config appears incompatible with OCIO v2 (XYZ role/name conflict)"]]
     ELSE locate' = [locate EXCEPT !.pc = "stage"]
  /\ UNCHANGED exceptLocate

\* rmtree of aces/config when it exists, then copytree; a copy that fails
\* leaves any part of the files behind.
StageStep ==
  /\ locate.pc = "stage"
  /\ IF locate.copy_fails
     THEN \E left \in {locate.final, {}} \cup
                      {part \in SUBSET CopyOfDir(locate.tree, locate.config_dir.dir) :
                         part # CopyOfDir(locate.tree, locate.config_dir.dir)} :
            locate' = [locate EXCEPT
                         !.pc = "done",
                         !.final = left,
                         !.ret = [ok |-> FALSE, dir |-> "",
                                  msg |-> "Failed to stage ACES config"]]
     ELSE locate' = [locate EXCEPT
                       !.pc = "done",
                       !.final = CopyOfDir(locate.tree, locate.config_dir.dir),
                       !.ret = [ok |-> TRUE, dir |-> "aces/config",
                                msg |-> "ACES configuration installed"]]
  /\ UNCHANGED exceptLocate

(***************************************************************************)
(* install_aces_from_zip_url statement by statement, with the calls that   *)
(* can fail: which of them are inside a try block decides whether a        *)
(* failure becomes a return value or leaves the function as an exception.  *)
(***************************************************************************)
\* The calls of the function that may fail, in the order of the code.  The
\* removal of an item while cleaning and the final cleanup are inside try
\* blocks that pass: their failure changes nothing below.
FaultSites ==
  {"makedirs_aces", "listdir", "remove_item", "download_zip", "makedirs_extract",
   "extractall", "no_marker", "unreadable", "incompatible", "copytree", "cleanup"}

NoneDir == "None"
NoReturn == [ok |-> FALSE, dir |-> NoneDir, msg |-> ""]

\* return False, None, msg
PipeFails(msg) == [pipe EXCEPT !.pc = "done", !.ret = [ok |-> FALSE, dir |-> NoneDir, msg |-> msg]]

\* An exception no try block of the function catches.
PipeRaises(site) == [pipe EXCEPT !.pc = "done", !.raised = site]

\* if progress_callback: try: progress_callback(message, ...) except: pass
Notify(p, message) ==
  IF p.callback = "none" THEN p ELSE [p EXCEPT !.notified = Append(@, message)]

NoPipe ==
  pipe = [pc |-> "idle", faults |-> {}, callback |-> "none", notified |-> << >>,
          ret |-> NoReturn, raised |-> ""]

\* get_aces_dir, os.makedirs, the first progress message and the cleaning
PipeClean ==
  /\ pipe.pc = "clean"
  /\ pipe' = IF "makedirs_aces" \in pipe.faults THEN PipeRaises("makedirs_aces")
             ELSE LET p == Notify(pipe, "Cleaning previous installation...")
                  IN  IF "listdir" \in pipe.faults
                      THEN [p EXCEPT !.pc = "done", !.raised = "listdir"]
                      ELSE [Notify(p, "Downloading ACES configuration...")
                              EXCEPT !.pc = "download"]
  /\ UNCHANGED exceptPipe

\* download_zip inside try ... except Exception
PipeDownload ==
  /\ pipe.pc = "download"
  /\ pipe' = IF "download_zip" \in pipe.faults THEN PipeFails("Download failed")
             ELSE [Notify(Notify(pipe, "Downloading..."), "Extracting files...")
                     EXCEPT !.pc = "extract"]
  /\ UNCHANGED exceptPipe

\* os.makedirs(extract_root) before the try block, extractall inside it
PipeExtract ==
  /\ pipe.pc = "extract"
  /\ pipe' = IF "makedirs_extract" \in pipe.faults THEN PipeRaises("makedirs_extract")
             ELSE IF "extractall" \in pipe.faults THEN PipeFails("Extraction failed")
             ELSE [Notify(pipe, "Locating configuration...") EXCEPT !.pc = "locate"]
  /\ UNCHANGED exceptPipe

\* find_config_ocio, then is_config_potentially_incompatible, which gives
\* False for a file it cannot read
PipeLocate ==
  /\ pipe.pc = "locate"
  /\ pipe' = IF "no_marker" \in pipe.faults
             THEN PipeFails("Could not find config.ocio in the downloaded archive")
             ELSE IF "incompatible" \in pipe.faults /\ "unreadable" \notin pipe.faults
             THEN PipeFails("Downloaded config appears incompatible with OCIO v2 (XYZ role/name conflict)")
             ELSE [Notify(pipe, "Installing configuration...") EXCEPT !.pc = "stage"]
  /\ UNCHANGED exceptPipe

\* rmtree and copytree inside try ... except ... finally, the last message
\* and the return
PipeStage ==
  /\ pipe.pc = "stage"
  /\ pipe' = IF "copytree" \in pipe.faults THEN PipeFails("Failed to stage ACES config")
             ELSE [Notify(pipe, "Installation complete!")
                     EXCEPT !.pc = "done",
                            !.ret = [ok |-> TRUE, dir |-> "aces/config",
                                     msg |-> "ACES configuration installed"]]
  /\ UNCHANGED exceptPipe

(***************************************************************************)
(* The progress reports of install_aces_from_zip_url: the fixed ones of    *)
(* the stages and the ones download_progress computes from the report hook *)
(* of urlretrieve.                                                         *)
(***************************************************************************)
\* The largest Content-Length of the model, in bytes.
MaxTotal == 7

\* The block sizes of the model (urlretrieve reads blocks of one size).
BlockSizes == {2, 3}

\* Number of blocks urlretrieve reads for total bytes: the last may be short.
BlocksOf(total, bs) == (total + bs - 1) \div bs

\* percentage = 10 + int(70 * downloaded / total)
DownloadPercent(downloaded, total) == 10 + ((70 * downloaded) \div total)

Report(stage, pct) == [stage |-> stage, pct |-> pct]

NoPercent ==
  percent = [pc |-> "idle", total |-> 0, block_size |-> 2, block_num |-> 0,
             reports |-> {}]

\* The reports before the download: cleaning at 0 and downloading at 10.
PercentBegin ==
  /\ percent.pc = "begin"
  /\ percent' = [percent EXCEPT
                   !.pc = "hook",
                   !.reports = @ \cup {Report("clean", 0), Report("start", 10)}]
  /\ UNCHANGED exceptPercent

\* urlretrieve calls the hook with block_num, block_size and total_size, first
\* with block 0 and then after every block read.  update_progress does nothing
\* for total_size <= 0 and otherwise hands block_num * block_size to
\* download_progress unless the throttle holds the report back.
PercentHook ==
  /\ percent.pc = "hook"
  /\ \E throttled \in BOOLEAN :
       LET downloaded == percent.block_num * percent.block_size
           last == percent.block_num >= BlocksOf(percent.total, percent.block_size)
       IN  percent' = [percent EXCEPT
             !.pc = IF last THEN "finish" ELSE "hook",
             !.block_num = IF last THEN @ ELSE @ + 1,
             !.reports = IF percent.total > 0 /\ ~throttled
                         THEN @ \cup {Report("download",
                                              DownloadPercent(downloaded, percent.total))}
                         ELSE @]
  /\ UNCHANGED exceptPercent

\* The reports after the download: 80, 85, 90 and 100.
PercentFinish ==
  /\ percent.pc = "finish"
  /\ percent' = [percent EXCEPT
                   !.pc = "done",
                   !.reports = @ \cup {Report("extract", 80), Report("locate", 85),
                                       Report("install", 90), Report("complete", 100)}]
  /\ UNCHANGED exceptPercent

(***************************************************************************)
(* restart_blender_with_same_file.                                         *)
(***************************************************************************)
AutosavePath == "autosave_blender_aces_manager.blend"

\* The environment handed to the new process: OCIO removed when clear_ocio,
\* then extra_env laid over it.  An environment is the value of OCIO, NoPath
\* when it is unset.
ChildEnv(ocio, clear_ocio, extra_env) ==
  IF extra_env # NoPath THEN extra_env
  ELSE IF clear_ocio THEN NoPath ELSE ocio

\* An exception of Popen that is not caught ends the function.
AfterSpawnUncaught(spawn_raises) == IF spawn_raises THEN "done" ELSE "quit"

\* try: subprocess.Popen(args, env=env) except Exception: pass
AfterSpawn(spawn_raises) == "quit"

NoRestart ==
  restartCall = [pc |-> "idle", filepath |-> "", save_raises |-> FALSE,
             spawn_raises |-> FALSE, quit_raises |-> FALSE, ocio |-> NoPath,
             clear_ocio |-> FALSE, extra_env |-> NoPath,
             attempted |-> << >>, args |-> "", child_env |-> NoPath,
             terminated |-> FALSE]

\* The document is saved: to the autosave path when it has no path (a save
\* that raises leaves no file to open), else in place (a raise is passed over).
RestartSave ==
  /\ restartCall.pc = "save"
  /\ restartCall' = [restartCall EXCEPT
                   !.pc = "spawn",
                   !.attempted = Append(@, IF restartCall.filepath = ""
                                           THEN "save_as_mainfile" ELSE "save_mainfile"),
                   !.args = IF restartCall.filepath # "" THEN restartCall.filepath
                            ELSE IF restartCall.save_raises THEN "" ELSE AutosavePath]
  /\ UNCHANGED exceptRestart

\* The new process is started with the environment built for it.
RestartSpawn ==
  /\ restartCall.pc = "spawn"
  /\ restartCall' = [restartCall EXCEPT
                   !.pc = AfterSpawn(restartCall.spawn_raises),
                   !.attempted = Append(@, "Popen"),
                   !.child_env = IF restartCall.spawn_raises THEN @
                                 ELSE ChildEnv(restartCall.ocio, restartCall.clear_ocio,
                                               restartCall.extra_env)]
  /\ UNCHANGED exceptRestart

\* bpy.ops.wm.quit_blender()
RestartQuit ==
  /\ restartCall.pc = "quit"
  /\ restartCall' = [restartCall EXCEPT
                   !.pc = IF restartCall.quit_raises THEN "exit" ELSE "done",
                   !.attempted = Append(@, "quit_blender"),
                   !.terminated = ~restartCall.quit_raises]
  /\ UNCHANGED exceptRestart

\* sys.exit(0) inside try ... except SystemExit: pass
RestartHardExit ==
  /\ restartCall.pc = "exit"
  /\ restartCall' = [restartCall EXCEPT !.pc = "done", !.attempted = Append(@, "sys.exit")]
  /\ UNCHANGED exceptRestart

(***************************************************************************)
(* get_latest_release_info.  A release is [tag, draft, prerelease,          *)
(* created_at, assets]; created_at is the host's fixed-width timestamp, a   *)
(* string of digits; an asset is its name, and its download URL is the      *)
(* release's tag with the asset's position.                                 *)
(***************************************************************************)
MaxReleases == 2

ZipName == <<"a", ".", "z", "i", "p">>
UpperZipName == <<"A", ".", "Z", "I", "P">>
TextName == <<"a", ".", "t", "x", "t">>
DotZip == <<".", "z", "i", "p">>

\* str.lower(), on the letters the names are written with
LowerChar(c) ==
  CASE c = "A" -> "a" [] c = "Z" -> "z" [] c = "I" -> "i" [] c = "P" -> "p"
    [] OTHER -> c
Lower(s) == [i \in 1..Len(s) |-> LowerChar(s[i])]

\* str.endswith
EndsWith(s, suffix) ==
  /\ Len(suffix) <= Len(s)
  /\ \A i \in 1..Len(suffix) : s[Len(s) - Len(suffix) + i] = suffix[i]

\* The comparison of two strings of digits, character by character.
RECURSIVE StrLess(_, _)
StrLess(a, b) ==
  IF b = << >> THEN FALSE
  ELSE IF a = << >> THEN TRUE
  ELSE IF Head(a) # Head(b) THEN DigitVal(Head(a)) < DigitVal(Head(b))
  ELSE StrLess(Tail(a), Tail(b))

\* https://github.com/{repo}/archive/refs/tags/{tag}.zip
SourceArchive(tag) == [tag |-> tag, asset |-> 0]
BrowserDownloadUrl(tag, i) == [tag |-> tag, asset |-> i]
NoUrl == [tag |-> 0, asset |-> 0]

\* The asset loop, and the source archive of the tag when it chose nothing.
AssetUrl(r) ==
  LET zips == {i \in 1..Len(r.assets) : EndsWith(Lower(r.assets[i]), DotZip)} IN
  IF zips # {} THEN BrowserDownloadUrl(r.tag, CHOOSE i \in zips : \A j \in zips : i <= j)
  ELSE SourceArchive(r.tag)

\* The dict that is returned.
ReleaseDict(r) ==
  [found |-> TRUE, tag |-> r.tag, is_prerelease |-> r.prerelease,
   asset_url |-> AssetUrl(r)]
NoReleaseInfo ==
  [found |-> FALSE, tag |-> 0, is_prerelease |-> FALSE, asset_url |-> NoUrl]

\* The list with the drafts left in.
FilteredWithDrafts(releases, include_prereleases) ==
  SelectSeq(releases, LAMBDA r : include_prereleases \/ ~r.prerelease)

\* filtered: not draft, and not prerelease unless include_prereleases
Filtered(releases, include_prereleases) ==
  SelectSeq(releases,
            LAMBDA r : ~r.draft /\ (include_prereleases \/ ~r.prerelease))

\* filtered.sort(key=created_at, reverse=True); filtered[0]: the sort is
\* stable, so of the releases with the greatest key the first of the list.
NewestOf(filtered) ==
  LET top == {i \in 1..Len(filtered) :
                \A j \in 1..Len(filtered) :
                  ~StrLess(filtered[i].created_at, filtered[j].created_at)} IN
  filtered[CHOOSE i \in top : \A j \in top : i <= j]

NoReleaseCall ==
  releaseCall = [pc |-> "idle", repo |-> << >>, include_prereleases |-> FALSE,
                 latest |-> 0, list_fails |-> FALSE, via |-> "",
                 out |-> NoReleaseInfo]

\* include_prereleases is false: releases/latest is asked; an answer that is
\* a release and not a draft is returned, anything else goes on to the list.
ReleaseLatest ==
  /\ releaseCall.pc = "latest"
  /\ IF /\ ~releaseCall.include_prereleases
        /\ releaseCall.latest # 0
        /\ ~releaseCall.repo[releaseCall.latest].draft
     THEN releaseCall' = [releaseCall EXCEPT
                            !.pc = "done", !.via = "latest",
                            !.out = ReleaseDict(releaseCall.repo[releaseCall.latest])]
     ELSE releaseCall' = [releaseCall EXCEPT !.pc = "list"]
  /\ UNCHANGED exceptRelease

\* The release list: a failed request is the empty list; None when nothing is
\* left after filtering, else the newest of what is left.
ReleaseList ==
  /\ releaseCall.pc = "list"
  /\ LET releases == IF releaseCall.list_fails THEN << >> ELSE releaseCall.repo
         filtered == Filtered(releases, releaseCall.include_prereleases) IN
     releaseCall' = [releaseCall EXCEPT
                       !.pc = "done", !.via = "list",
                       !.out = IF filtered = << >> THEN NoReleaseInfo
                               ELSE ReleaseDict(NewestOf(filtered))]
  /\ UNCHANGED exceptRelease

Init ==
  /\ InitProg
  /\ NoDownload
  /\ NoVersionCheck
  /\ NoIncompatCall
  /\ NoUninstall
  /\ NoAddonUpdate
  /\ NoRepack
  /\ NoLocate
  /\ NoPipe
  /\ NoPercent
  /\ NoRestart
  /\ NoReleaseCall
  /\ NoAddonUpdate

Next ==
  \/ \E auto \in BOOLEAN : SwitchToAces(auto)
  \/ \E auto \in BOOLEAN : SwitchToDefault(auto)
  \/ Tick

Spec == Init /\ [][Next]_vars

\* The install operator: one host, no override, nothing to back up.
InitInstall ==
  /\ Init
  /\ hostApi = "pref"
  /\ pref = NoPath
  /\ ~hasDefaultConfig

ThreadStep(t) ==
  \/ ThreadClean(t)
  \/ ThreadFetch(t)
  \/ ThreadStage(t)
  \/ ThreadCopy(t)
  \/ ThreadInstalled(t)
  \/ ThreadWriteSuccess(t)
  \/ ThreadWriteMessage(t)
  \/ ThreadComplete(t)

\* The pipeline called directly, one source after another.
NextCall == \E url \in 0..NumDefaultUrls : InstallCall(url)

SpecCall == InitInstall /\ [][NextCall]_vars

\* The install operator with its thread, and switch_to_aces beside it.
NextInstall ==
  \/ InstallExecute(1)
  \/ ThreadStep(1)
  \/ ModalEsc
  \/ ModalTick
  \/ CancelInstall
  \/ \E auto \in BOOLEAN : SwitchToAces(auto)

SpecInstall == InitInstall /\ [][NextInstall]_vars

\* Two install threads: the operator triggered again while a thread runs.
InitRace ==
  /\ InitInstall
  /\ ~acesRepoPref
  /\ config = NoProfile

NextRace ==
  \/ \E t \in Threads : InstallExecute(t)
  \/ \E t \in Threads : ThreadStep(t)
  \/ ModalEsc
  \/ ModalTick
  \/ CancelInstall

SpecRace == InitRace /\ [][NextRace]_vars

\* The ledger: switches with their backups beside the update check that
\* register schedules.
InitLedger ==
  /\ Init
  /\ hostApi = "pref"
  /\ pref = NoPath
  /\ hasDefaultConfig
  /\ ~acesRepoPref
  /\ config = ProfileFiles

NextLedger ==
  \/ \E auto \in BOOLEAN : SwitchToAces(auto)
  \/ \E auto \in BOOLEAN : SwitchToDefault(auto)
  \/ Tick
  \/ BgFetch
  \/ BgLoad
  \/ BgSave

SpecLedger == InitLedger /\ [][NextLedger]_vars

\* One fixed start of the switches and the install operator.
ProgAtRest ==
  /\ InitProg
  /\ hostApi = "pref"
  /\ pref = NoPath
  /\ ~hasDefaultConfig
  /\ ~acesRepoPref
  /\ config = NoProfile

\* download_zip on its own: any destination, with or without a callback,
\* with or without a reported size, the temporary directory on the same
\* file system or not.
InitDownload ==
  /\ ProgAtRest
  /\ InitDownloadIdle
  /\ dlDest \in {AbsentFile, OldFile}
  /\ dlDestOld = dlDest
  /\ dlSameFs \in BOOLEAN
  /\ dlTotal \in {-1, MaxBlocks}
  /\ dlCb \in BOOLEAN
  /\ NoVersionCheck
  /\ NoIncompatCall
  /\ NoUninstall
  /\ NoAddonUpdate
  /\ NoRepack
  /\ NoLocate
  /\ NoPipe
  /\ NoPercent
  /\ NoRestart
  /\ NoReleaseCall

NextDownload ==
  \/ DownloadStart
  \/ DownloadOpen
  \/ DownloadBlock
  \/ DownloadMove
  \/ DownloadCopy
  \/ DownloadCleanup

SpecDownload == InitDownload /\ [][NextDownload]_vars

\* The largest version component of the version check on its own.
MaxVersion == 10

VersionComponents == {0, 1, MaxVersion - 1, MaxVersion}
VersionTriples == {<<x, y, z>> : x \in VersionComponents, y \in VersionComponents,
                                z \in VersionComponents}

\* "X.Y" and "X"
FormatTwo(v) == FormatInt(v[1]) \o <<".">> \o FormatInt(v[2])
FormatOne(v) == FormatInt(v[1])

\* Tags that are not a plain triple.
OddTags == {<< >>, <<"b", "e", "t", "a">>,
            <<"1", ".", "0", ".", "8", "-", "b">>,
            <<" ", "v", "1", ".", "9", ".", "0", " ">>,
            <<"1", ".", "9", ".", "0", ".", "5">>}

VersionTags ==
  UNION {{FormatVersion(v), <<"v">> \o FormatVersion(v), <<"V">> \o FormatVersion(v),
          FormatTwo(v), FormatOne(v)} : v \in VersionTriples} \cup OddTags

RunningVersions == {CurrentVersion, <<0, 0, 0>>, <<1, MaxVersion - 1, 0>>,
                    <<1, MaxVersion - 1, MaxVersion - 1>>}

InitVersion ==
  /\ ProgAtRest
  /\ NoDownload
  /\ verPc = "idle"
  /\ verTag \in VersionTags
  /\ verRunning \in RunningVersions
  /\ verOut = NoUpdate
  /\ NoIncompatCall
  /\ NoUninstall
  /\ NoAddonUpdate
  /\ NoRepack
  /\ NoLocate
  /\ NoPipe
  /\ NoPercent
  /\ NoRestart
  /\ NoReleaseCall

NextVersion == CheckVersion

SpecVersion == InitVersion /\ [][NextVersion]_vars

\* is_config_potentially_incompatible on its own, on every text of lines of
\* ProfileLines, readable or not.
InitIncompat ==
  /\ ProgAtRest
  /\ NoDownload
  /\ NoVersionCheck
  /\ NoUninstall
  /\ NoAddonUpdate
  /\ NoRepack
  /\ NoLocate
  /\ NoPipe
  /\ NoPercent
  /\ NoRestart
  /\ NoReleaseCall
  /\ \E chosen \in SUBSET (1..Len(ProfileLines)), readable \in BOOLEAN :
       incompat = [pc |-> "idle", lines |-> chosen, readable |-> readable, out |-> FALSE]

NextIncompat == IncompatCall

SpecIncompat == InitIncompat /\ [][NextIncompat]_vars

\* The uninstall operator beside the switches.
InitUninstall == Init

NextUninstall ==
  \/ UninstallExecute
  \/ \E auto \in BOOLEAN : SwitchToAces(auto)
  \/ \E auto \in BOOLEAN : SwitchToDefault(auto)
  \/ Tick

SpecUninstall == InitUninstall /\ [][NextUninstall]_vars

\* install_addon_from_zip from its install step on, for either module name on
\* every host: which add-ons are registered and which names each enable
\* operator accepts.
InitAddonUpdate ==
  /\ ProgAtRest
  /\ NoDownload
  /\ NoVersionCheck
  /\ NoIncompatCall
  /\ NoUninstall
  /\ NoRepack
  /\ NoLocate
  /\ NoPipe
  /\ NoPercent
  /\ NoRestart
  /\ NoReleaseCall
  /\ \E module \in {LegacyModule, ExtensionModule},
        has_ext \in BOOLEAN,
        registered \in SUBSET {LegacyModule, ExtensionModule, LegacyCopyModule, OtherModule},
        addon_enables \in SUBSET {LegacyModule, ExtensionModule, LegacyCopyModule},
        extension_enables \in SUBSET {LegacyModule, ExtensionModule} :
       addonUpdate = [pc |-> "install", module_name |-> module,
                      has_extension_enable |-> has_ext, registered |-> registered,
                      addon_enables |-> addon_enables,
                      extension_enables |-> extension_enables,
                      enable_ok |-> FALSE, tried |-> << >>,
                      ret |-> [ok |-> FALSE, msg |-> ""]]

NextAddonUpdate ==
  \/ AddonInstallStep
  \/ AddonEnableDirect
  \/ AddonEnableExtension
  \/ AddonEnableScan
  \/ AddonUpdateReturn

SpecAddonUpdate == InitAddonUpdate /\ [][NextAddonUpdate]_vars

\* The entries an archive of the model is made of: two top-level folders with
\* files, a nested file and an empty directory, a __MACOSX entry and a file at
\* the top of the archive.
OtherTop == "blender_aces_manager-main"
FolderEntries(top) ==
  {DirEntry(<<top>>), FileEntry(<<top, "__init__.py">>, 1),
   FileEntry(<<top, "src", "utils.py">>, 2), DirEntry(<<top, "empty">>)}
ArchiveEntries ==
  FolderEntries(Desired) \cup FolderEntries(OtherTop)
    \cup {FileEntry(<<MacosxDir, "._utils.py">>, 3), FileEntry(<<"README.md">>, 4)}

\* The repack step on every archive of these entries.
InitRepack ==
  /\ ProgAtRest
  /\ NoDownload
  /\ NoVersionCheck
  /\ NoIncompatCall
  /\ NoUninstall
  /\ NoAddonUpdate
  /\ NoLocate
  /\ NoPipe
  /\ NoPercent
  /\ NoRestart
  /\ NoReleaseCall
  /\ \E names \in SUBSET ArchiveEntries, io_fails \in BOOLEAN :
       repack = [pc |-> "inspect", names |-> names, io_fails |-> io_fails,
                 out |-> [repacked |-> FALSE, names |-> {}]]

NextRepack == RepackStep

SpecRepack == InitRepack /\ [][NextRepack]_vars

\* The files a tree of the model is made of: the marker at the root, one and
\* two levels down and in a second folder, and other files.
TreeFiles ==
  {<<MarkerName>>, <<"aces", MarkerName>>, <<"aces", "config", MarkerName>>,
   <<"other", MarkerName>>, <<"README.md">>, <<"aces", "luts", "a.spi1d">>,
   <<"aces", "config", "b.spi1d">>}

\* The stages on every tree of these files, with a marker text the heuristic
\* accepts or rejects, a copy that works or fails, and aces/config absent or
\* left from before.
InitLocate ==
  /\ ProgAtRest
  /\ NoDownload
  /\ NoVersionCheck
  /\ NoIncompatCall
  /\ NoUninstall
  /\ NoAddonUpdate
  /\ NoRepack
  /\ NoPipe
  /\ NoPercent
  /\ NoRestart
  /\ NoReleaseCall
  /\ \E tree \in SUBSET TreeFiles,
        lines \in {{}, {RolesLine, RoleXyzLine, NameXyzLine}},
        copy_fails \in BOOLEAN,
        prior \in {{}, {<<"old.ocio">>}} :
       locate = [pc |-> "locate", tree |-> tree, lines |-> lines,
                 copy_fails |-> copy_fails, prior |-> prior, final |-> prior,
                 config_dir |-> NotFound,
                 ret |-> [ok |-> FALSE, dir |-> "", msg |-> ""]]

NextLocate ==
  \/ LocateStep
  \/ CompatStep
  \/ StageStep

SpecLocate == InitLocate /\ [][NextLocate]_vars

\* One call of install_aces_from_zip_url for every set of failing calls,
\* without a progress callback, with one that works and with one that raises.
InitPipe ==
  /\ ProgAtRest
  /\ NoDownload
  /\ NoVersionCheck
  /\ NoIncompatCall
  /\ NoUninstall
  /\ NoAddonUpdate
  /\ NoRepack
  /\ NoLocate
  /\ NoPercent
  /\ NoRestart
  /\ NoReleaseCall
  /\ \E faults \in SUBSET FaultSites, callback \in {"none", "works", "raises"} :
       pipe = [pc |-> "clean", faults |-> faults, callback |-> callback,
               notified |-> << >>, ret |-> NoReturn, raised |-> ""]

NextPipe ==
  \/ PipeClean
  \/ PipeDownload
  \/ PipeExtract
  \/ PipeLocate
  \/ PipeStage

SpecPipe == InitPipe /\ [][NextPipe]_vars

\* The reports of one call for every total size, with and without a
\* Content-Length, and both block sizes.
InitPercent ==
  /\ ProgAtRest
  /\ NoDownload
  /\ NoRestart
  /\ NoReleaseCall
  /\ NoVersionCheck
  /\ NoIncompatCall
  /\ NoUninstall
  /\ NoAddonUpdate
  /\ NoRepack
  /\ NoLocate
  /\ NoPipe
  /\ \E total \in {-1} \cup (1..MaxTotal), bs \in BlockSizes :
       percent = [pc |-> "begin", total |-> total, block_size |-> bs,
                  block_num |-> 0, reports |-> {}]

NextPercent ==
  \/ PercentBegin
  \/ PercentHook
  \/ PercentFinish

SpecPercent == InitPercent /\ [][NextPercent]_vars

\* restart_blender_with_same_file for a saved and an unsaved document, with
\* every combination of calls that raise and every environment.
InitRestart ==
  /\ ProgAtRest
  /\ NoDownload
  /\ NoReleaseCall
  /\ NoVersionCheck
  /\ NoIncompatCall
  /\ NoUninstall
  /\ NoAddonUpdate
  /\ NoRepack
  /\ NoLocate
  /\ NoPipe
  /\ NoPercent
  /\ \E filepath \in {"", "scene.blend"},
        save_raises \in BOOLEAN, spawn_raises \in BOOLEAN, quit_raises \in BOOLEAN,
        ocio \in {NoPath, CustomPath}, clear_ocio \in BOOLEAN,
        extra_env \in {NoPath, AcesConfigPath} :
       restartCall = [pc |-> "save", filepath |-> filepath, save_raises |-> save_raises,
                  spawn_raises |-> spawn_raises, quit_raises |-> quit_raises,
                  ocio |-> ocio, clear_ocio |-> clear_ocio, extra_env |-> extra_env,
                  attempted |-> << >>, args |-> "", child_env |-> NoPath,
                  terminated |-> FALSE]

NextRestart ==
  \/ RestartSave
  \/ RestartSpawn
  \/ RestartQuit
  \/ RestartHardExit

SpecRestart == InitRestart /\ [][NextRestart]_vars

\* get_latest_release_info on its own, over every repository of at most
\* MaxReleases releases.  releases/latest answers with a release of the
\* repository that is neither a draft nor a pre-release, or the request fails.
Timestamps == {<<"0", "9">>, <<"1", "0">>}
AssetLists == {<< >>, <<UpperZipName, ZipName>>, <<TextName, ZipName>>}
ReleaseShapes ==
  [draft : BOOLEAN, prerelease : BOOLEAN, created_at : Timestamps,
   assets : AssetLists]

InitReleaseCall ==
  /\ ProgAtRest
  /\ NoDownload
  /\ NoVersionCheck
  /\ NoIncompatCall
  /\ NoUninstall
  /\ NoAddonUpdate
  /\ NoRepack
  /\ NoLocate
  /\ NoPipe
  /\ NoPercent
  /\ NoRestart
  /\ \E n \in 0..MaxReleases, include \in BOOLEAN, fails \in BOOLEAN :
       \E shape \in [1..n -> ReleaseShapes] :
         LET repo == [i \in 1..n |->
                        [tag |-> i, draft |-> shape[i].draft,
                         prerelease |-> shape[i].prerelease,
                         created_at |-> shape[i].created_at,
                         assets |-> shape[i].assets]] IN
         \E latest \in {0} \cup {i \in 1..n : ~repo[i].draft /\ ~repo[i].prerelease} :
           releaseCall = [pc |-> "latest", repo |-> repo,
                          include_prereleases |-> include, latest |-> latest,
                          list_fails |-> fails, via |-> "", out |-> NoReleaseInfo]

NextReleaseCall ==
  \/ ReleaseLatest
  \/ ReleaseList

SpecReleaseCall == InitReleaseCall /\ [][NextReleaseCall]_vars

\* The switches on every host: every version branch, the preference
\* attribute present or missing, its assignment raising or not.
InitHosts ==
  /\ \E v \in HostVersions, has_attr \in BOOLEAN, write_raises \in BOOLEAN :
       InitProgOn({HostApiOf(v, has_attr, write_raises)})
  /\ NoDownload
  /\ NoVersionCheck
  /\ NoIncompatCall
  /\ NoUninstall
  /\ NoAddonUpdate
  /\ NoRepack
  /\ NoLocate
  /\ NoPipe
  /\ NoPercent
  /\ NoRestart
  /\ NoReleaseCall

SpecHosts == InitHosts /\ [][Next]_vars

\* The install operator with one thread, the exceptions the thread's handlers
\* catch included.  The interpreter schedules a thread that can run.
ThreadRun(t) ==
  \/ ThreadStep(t)
  \/ ThreadPrefsRaise(t)
  \/ ThreadCallRaise(t)

NextThread ==
  \/ InstallExecute(1)
  \/ ThreadRun(1)
  \/ ModalEsc
  \/ ModalTick
  \/ CancelInstall

SpecThread == InitInstall /\ [][NextThread]_vars /\ WF_vars(ThreadRun(1))

\* The update check of the UI beside the switches and their backups.
InitUpdate == InitLedger

NextUpdate ==
  \/ CheckAddonUpdate
  \/ \E auto \in BOOLEAN : SwitchToAces(auto)
  \/ \E auto \in BOOLEAN : SwitchToDefault(auto)
  \/ Tick

SpecUpdate == InitUpdate /\ [][NextUpdate]_vars

(***************************************************************************)
(* Claims                                                                  *)
(***************************************************************************)
Override == GetOverride(hostApi, pref, env)
Backups == LoadState(stateFile).backups

SwitchToAcesStep == \E auto \in BOOLEAN : SwitchToAces(auto)
SwitchToDefaultStep == \E auto \in BOOLEAN : SwitchToDefault(auto)

\* C1: a switch to the target the previous successful switch went to makes no
\* backup directory, appends nothing to the ledger, succeeds and leaves the
\* override as the first call left it.
C1_SwitchTwiceIdempotent ==
  [][ /\ (result.op = "switch_to_aces" /\ result.ok /\ SwitchToAcesStep)
         => /\ result'.ok
            /\ backupFs' = backupFs
            /\ stateFile' = stateFile
            /\ Override' = Override
      /\ (result.op = "switch_to_default" /\ result.ok /\ SwitchToDefaultStep)
         => /\ result'.ok
            /\ backupFs' = backupFs
            /\ stateFile' = stateFile
            /\ Override' = Override ]_vars

\* A second switch_to_aces has run: the first one came from the host default
\* and logged its backup, the last one found the override already on ACES.
C1_Witness ==
  /\ result.op = "switch_to_aces"
  /\ result.ok
  /\ ~result.restart
  /\ lastBackup.outcome = "notcalled"
  /\ \E i \in 1..Len(Backups) : Backups[i].type = "default"

\* C2: switch_to_default with no override set succeeds, makes no backup
\* directory and leaves the ledger's backups as they were.
C2_ClearWithoutOverride ==
  [][ (Override = NoPath /\ SwitchToDefaultStep)
        => /\ result'.ok
           /\ result'.op = "switch_to_default"
           /\ backupFs' = backupFs
           /\ Backups' = Backups ]_vars

C2_Witness ==
  /\ result.op = "switch_to_default"
  /\ result.ok
  /\ lastBackup.outcome = "notcalled"
  /\ Override = NoPath

AllSourcesFailed(tried) ==
  /\ Len(tried) = NumDefaultUrls + (IF acesRepoPref THEN 1 ELSE 0)
  /\ \A i \in 1..Len(tried) : ~tried[i].ok

\* The claim C4: the marker file is visible at aces/config/config.ocio only
\* when the whole profile directory has been copied there.
C4_InstalledOnlyWhenComplete ==
  IsAcesInstalled(config) => config = ProfileFiles

\* install_aces_from_zip_url is running in thread t.
InPipeline(t) == tpc[t] \in {"fetch", "stage", "copy"}

\* The claim C5: at most one install pipeline is running at any time.
C5_OnePipelineAtATime ==
  Cardinality({t \in Threads : InPipeline(t)}) <= 1

\* The claim C6: once an installation is cancelled its completion state is
\* the fabricated one, and what the modal handler reports for it is never the
\* thread's success or message.
C6_CancelDiscardsThreadResult ==
  cancelled =>
    /\ op.installation_complete
    /\ ~op.installation_success
    /\ op.installation_message = CancelledMsg
    /\ reported # NoReport => reported = [level |-> "ERROR", msg |-> CancelledMsg]

IsPrefix(a, b) == Len(a) <= Len(b) /\ SubSeq(b, 1, Len(a)) = a

\* The claim C7: the ledger's list of backups only grows at its end: after
\* every step the list before it is a prefix of the list after it.
C7_BackupsOnlyAppended ==
  [][IsPrefix(Backups, Backups')]_vars

\* The sources of tried are the preference (source 0) first when it is set,
\* then the defaults 1, 2, ... in list order, and only the last one tried can
\* have succeeded.
TriedInOrder(tried) ==
  /\ Len(tried) <= NumDefaultUrls + (IF acesRepoPref THEN 1 ELSE 0)
  /\ \A i \in 1..Len(tried) :
       /\ tried[i].url = (IF acesRepoPref THEN i - 1 ELSE i)
       /\ i < Len(tried) => ~tried[i].ok

\* msg is a failure message of the last source of the list.
LastSourceFailure(msg) ==
  msg.kind \in FailureKinds /\ msg.url = NumDefaultUrls

C10_FailedBackupNeverBlocks ==
  [][ ((SwitchToAcesStep \/ SwitchToDefaultStep)
        /\ lastBackup'.outcome \in {"copyfailed", "nosource"})
        => /\ result'.ok
           /\ Backups' = Backups
           /\ result'.op = "switch_to_aces" => Override' = AcesConfigPath
           /\ result'.op = "switch_to_default" => (Override' = NoPath /\ env' = NoPath) ]_vars

\* Both switches have gone on after a backup copy that failed.
C10_Witness ==
  /\ lastBackup.outcome = "copyfailed"
  /\ result.ok
  /\ result.op \in {"switch_to_aces", "switch_to_default"}
  /\ \E d \in backupFs : ~d.complete

\* The claim C11: at every point the destination holds what it held before
\* the call or the complete download, and after a failed call the temporary
\* file is gone and the destination is as it was.
C11_DestinationNeverHalfWritten ==
  /\ dlDest \in {dlDestOld, CompleteFile}
  /\ (dlPc = "done" /\ dlRaised) => (dlTmp = -1 /\ dlDest = dlDestOld)

LexGreater(a, b) ==
  \E i \in 1..3 : a[i] > b[i] /\ \A j \in 1..(i - 1) : a[j] = b[j]

DeclaresRoleXyz(chosen) == RolesLine \in chosen /\ RoleXyzLine \in chosen

\* The text has a definition whose name is XYZ.
DefinesNameXyz(chosen) == NameXyzLine \in chosen

\* The claim C14: the heuristic answers true exactly for a readable text that
\* holds both a role declaration for XYZ and a definition named XYZ; other
\* occurrences of the substrings (a name that only starts with XYZ) give false.
C14_IncompatibleOnlyForXyz ==
  incompat.pc = "done" =>
    incompat.out = (/\ incompat.readable
                    /\ DeclaresRoleXyz(incompat.lines)
                    /\ DefinesNameXyz(incompat.lines))

\* The claim C15: an uninstall run while the profile is installed and is not the
\* active override destroys the profile and reports success.
C15_UninstallDestroysProfile ==
  [][(/\ UninstallExecute
      /\ ~IsUsingAces(hostApi, pref, env)
      /\ IsAcesInstalled(config))
       => (/\ ~IsAcesInstalled(config')
           /\ uninstallOp'.ret = "FINISHED"
           /\ uninstallOp'.report.level = "INFO")]_vars

\* The host lets the first, second, third mechanism enable the add-on.
DirectWorks(u) == u.module_name \in u.addon_enables
ExtensionWorks(u) ==
  /\ u.has_extension_enable
  /\ {u.module_name, Qualified(u.module_name)} \cap u.extension_enables # {}
ScanWorks(u) ==
  \/ \E m \in u.registered :
       /\ Len(m) >= Len(BaseOf(u.module_name))
       /\ \A i \in 1..Len(BaseOf(u.module_name)) : m[i] = BaseOf(u.module_name)[i]
       /\ m \in u.addon_enables
  \/ u.has_extension_enable /\ Qualified(BaseOf(u.module_name)) \in u.extension_enables

\* C16: after the install step succeeded the three mechanisms are tried in the
\* order direct, extension, scan; a mechanism after the first is tried only
\* when enable_ok is still false; the return value is the failure 'installed
\* but could not enable' when none of the three works on the host and
\* (True, 'Add-on updated') otherwise.
C16_EnableFallbackOrder ==
  /\ [](/\ addonUpdate.tried \in {<< >>, <<1>>, <<1, 2>>, <<1, 3>>, <<1, 2, 3>>}
        /\ (addonUpdate.pc = "done" /\ addonUpdate.tried # << >>) =>
             addonUpdate.ret =
               IF \/ DirectWorks(addonUpdate)
                  \/ ExtensionWorks(addonUpdate)
                  \/ ScanWorks(addonUpdate)
               THEN [ok |-> TRUE, msg |-> "Add-on updated"]
               ELSE [ok |-> FALSE, msg |-> InstalledNotEnabledMsg])
  /\ [][(Len(addonUpdate'.tried) > Len(addonUpdate.tried) /\ addonUpdate.tried # << >>)
          => ~addonUpdate.enable_ok]_vars

\* All three mechanisms were tried and the third one enabled the add-on.
C16_Witness ==
  /\ addonUpdate.pc = "done"
  /\ addonUpdate.tried = <<1, 2, 3>>
  /\ addonUpdate.ret.ok

\* The files of an archive below the top-level folder top: their path below
\* it and their contents.
FilesBelow(names, top) ==
  {<<Tail(e.path), e.data>> : e \in {n \in names : ~n.dir /\ n.path[1] = top /\ Len(n.path) > 1}}

\* Every file of an archive, by its path below its top-level entry.
FilesOf(names) ==
  {<<Tail(e.path), e.data>> : e \in {n \in names : ~n.dir}}

\* The one top-level entry of the archive, when it has just one.
OnlyTop(tops) == CHOOSE t \in tops : TRUE

\* The claim C17 as stated: an archive with a single top-level folder of another
\* name comes out with blender_aces_manager as its only top-level folder and
\* the same files; one whose single top-level folder has the name, or with
\* several top-level entries, is handed on unmodified.
C17_RepackAsStated ==
  repack.pc = "install" =>
    LET tops == TopLevelsAll(repack.names)
    IN  IF Cardinality(tops) = 1 /\ OnlyTop(tops) # Desired
           /\ IsExtractedDir(repack.names, OnlyTop(tops))
        THEN /\ TopLevelsAll(repack.out.names) \subseteq {Desired}
             /\ FilesOf(repack.out.names) = FilesOf(repack.names)
        ELSE (Cardinality(tops) > 1 \/ tops = {Desired})
               => repack.out.names = repack.names

\* C17, amended: entries below __MACOSX/ do not count as a top-level entry.  An
\* archive whose other entries lie in a single folder of another name comes out,
\* unless extracting or re-archiving fails, with blender_aces_manager as its
\* only top-level folder and exactly the files of that folder, at the same
\* paths below it and with the same contents; every other archive is handed on
\* unmodified.
C17_RepackRenamesSingleFolder ==
  repack.pc = "install" =>
    LET tops == TopLevels(repack.names)
    IN  IF Cardinality(tops) = 1 /\ OnlyTop(tops) # Desired
           /\ IsExtractedDir(repack.names, OnlyTop(tops)) /\ ~repack.io_fails
        THEN /\ repack.out.repacked
             /\ TopLevelsAll(repack.out.names) \subseteq {Desired}
             /\ \A e \in repack.out.names : ~e.dir
             /\ FilesBelow(repack.out.names, Desired)
                  = FilesBelow(repack.names, OnlyTop(tops))
        ELSE ~repack.out.repacked /\ repack.out.names = repack.names

\* An archive with a folder of another name and a __MACOSX entry was repacked.
C17_Witness ==
  /\ repack.pc = "install"
  /\ repack.out.repacked
  /\ \E e \in repack.names : StartsWithMacosx(e)
  /\ FilesBelow(repack.out.names, Desired) # {}

\* The tree holds exactly one marker file, in directory dir.
OneMarkerIn(tree, dir) ==
  {f \in tree : f[Len(f)] = MarkerName} = {dir \o <<MarkerName>>}

\* The files of the tree in and below dir, by their path below it.
FilesUnder(tree, dir) ==
  {SubSeq(f, Len(dir) + 1, Len(f)) :
     f \in {g \in tree : Len(g) > Len(dir) /\ \A i \in 1..Len(dir) : g[i] = dir[i]}}

NoMarkerResult ==
  /\ ~locate.config_dir.found
  /\ locate.ret = [ok |-> FALSE, dir |-> "",
                   msg |-> "Could not find config.ocio in the downloaded archive"]
  /\ locate.final = locate.prior

\* The claim C18 as stated: a tree with exactly one config.ocio has its
\* directory found and staged as aces/config; a tree with none fails with
\* 'Could not find config.ocio' and nothing is staged.
C18_LocatedAndStagedAsStated ==
  locate.pc = "done" =>
    /\ \A dir \in {ParentOf(f) : f \in locate.tree} :
         OneMarkerIn(locate.tree, dir) =>
           /\ locate.config_dir = [found |-> TRUE, dir |-> dir]
           /\ locate.ret.ok
           /\ locate.final = FilesUnder(locate.tree, dir)
    /\ (\A f \in locate.tree : f[Len(f)] # MarkerName) => NoMarkerResult

\* C18, amended: a tree with exactly one config.ocio has its directory found,
\* at any depth, and that directory is staged as aces/config unless the
\* compatibility test rejects the file or the copy fails; then the install
\* fails with the message of that stage.  A tree with none fails with 'Could
\* not find config.ocio' and nothing is staged.
C18_LocatedAndStaged ==
  locate.pc = "done" =>
    /\ \A dir \in {ParentOf(f) : f \in locate.tree} :
         OneMarkerIn(locate.tree, dir) =>
           /\ locate.config_dir = [found |-> TRUE, dir |-> dir]
           /\ IF locate.lines # {}
              THEN /\ ~locate.ret.ok
                   /\ locate.ret.msg = "Downloaded config appears incompatible with OCIO v2 (XYZ role/name conflict)"
                   /\ locate.final = locate.prior
              ELSE IF locate.copy_fails
              THEN ~locate.ret.ok /\ locate.ret.msg = "Failed to stage ACES config"
              ELSE /\ locate.ret = [ok |-> TRUE, dir |-> "aces/config",
                                    msg |-> "ACES configuration installed"]
                   /\ locate.final = FilesUnder(locate.tree, dir)
    /\ (\A f \in locate.tree : f[Len(f)] # MarkerName) => NoMarkerResult

\* A marker two levels down was found and its directory staged.
C18_Witness ==
  /\ locate.pc = "done"
  /\ locate.ret.ok
  /\ locate.config_dir.dir = <<"aces", "config">>
  /\ locate.final = {<<MarkerName>>, <<"b.spi1d">>}

\* A stage of the call fails: the download, the extraction, the lookup of the
\* marker, the compatibility test or the staging.
StageFailure(faults) ==
  \/ faults \cap {"download_zip", "makedirs_extract", "extractall", "no_marker", "copytree"} # {}
  \/ "incompatible" \in faults /\ "unreadable" \notin faults

\* The claim C19: no exception leaves install_aces_from_zip_url; a call in which a
\* stage fails returns (False, None, message) with a message, and a call in
\* which none fails succeeds, also with a progress callback that raises.
C19_NoFaultPropagates ==
  pipe.pc = "done" =>
    /\ pipe.raised = ""
    /\ IF StageFailure(pipe.faults)
       THEN ~pipe.ret.ok /\ pipe.ret.dir = NoneDir /\ pipe.ret.msg # ""
       ELSE pipe.ret.ok

\* The claim C21: every percentage reported lies in 0..100, and every one
\* reported during the download lies in 10..80, also for the last block.
C21_PercentagesInBand ==
  \A r \in percent.reports :
    /\ r.pct \in 0..100
    /\ r.stage = "download" => r.pct \in 10..80

\* C20: any two consecutive invocations of the progress callback are more than
\* 100 ms apart, and with no total size reported the callback is never invoked
\* while the transfer can still complete.
C20_ProgressThrottled ==
  /\ \A i \in 1..(Len(cbTimes) - 1) : cbTimes[i + 1] - cbTimes[i] > ThrottleMs
  /\ dlTotal <= 0 => cbTimes = << >>
  /\ ~dlCb => cbTimes = << >>

\* All blocks are in, the hook was called after each, and the callback was
\* invoked twice only.
C20_Witness ==
  /\ dlTmp = MaxBlocks
  /\ dlTotal > 0
  /\ Len(cbTimes) = 2
  /\ clock - cbTimes[1] > ThrottleMs

\* C22: when restart_blender_with_same_file is over it has attempted the quit
\* of the host, whether or not the save and the spawn raised; the hard exit
\* was attempted exactly when the quit raised, and after it; and the function
\* came to its end whatever raised.
C22_QuitAlwaysAttempted ==
  /\ restartCall.pc = "done" =>
       /\ \E i \in 1..Len(restartCall.attempted) : restartCall.attempted[i] = "quit_blender"
       /\ restartCall.quit_raises <=>
            restartCall.attempted[Len(restartCall.attempted)] = "sys.exit"
       /\ restartCall.quit_raises =>
            restartCall.attempted[Len(restartCall.attempted) - 1] = "quit_blender"
       /\ ~restartCall.quit_raises => restartCall.terminated
  /\ \A i \in 1..Len(restartCall.attempted) :
       restartCall.attempted[i] = "sys.exit" =>
         i > 1 /\ restartCall.attempted[i - 1] = "quit_blender" /\ restartCall.quit_raises

\* The save, the spawn and the quit all raised, and the hard exit was tried.
C22_Witness ==
  /\ restartCall.pc = "done"
  /\ restartCall.save_raises /\ restartCall.spawn_raises /\ restartCall.quit_raises
  /\ restartCall.attempted[Len(restartCall.attempted)] = "sys.exit"


\* C23: the status the panel shows is one of three, and it is the one the
\* override alone decides: "ACES Active" exactly when the normalised override
\* is the normalised path of the installed profile, else "Custom OCIO" exactly
\* when an override is set, else "Blender Default"; the profile directory and
\* the ledger do not enter into it.
C23_StatusFromOverrideAlone ==
  LET s == GetCurrentStatusText(hostApi, pref, env) IN
  /\ s \in {"ACES Active", "Custom OCIO", "Blender Default"}
  /\ s = "ACES Active" <=> NormPath(Override) = NormPath(AcesConfigPath)
  /\ s = "Custom OCIO" <=>
       (Override # NoPath /\ NormPath(Override) # NormPath(AcesConfigPath))
  /\ s = "Blender Default" <=> Override = NoPath

\* After a switch that could not install the profile the override still spells
\* the profile's path another way: ACES is shown as active with no profile on
\* disk.
C23_Witness ==
  /\ result.op = "switch_to_aces"
  /\ Override = AcesAltSpelling
  /\ ~IsAcesInstalled(config)
  /\ GetCurrentStatusText(hostApi, pref, env) = "ACES Active"


\* The release of the repository that was returned.
Selected == releaseCall.repo[releaseCall.out.tag]
Qualifies(r) == ~r.draft /\ (releaseCall.include_prereleases \/ ~r.prerelease)
TimeOf(r) == IntOfDigits(r.created_at)

\* What get_latest_release_info selects, the asset URL left aside.
SelectionAsStated ==
  releaseCall.pc = "done" =>
    /\ releaseCall.out.found =>
         /\ ~Selected.draft
         /\ Selected.prerelease => releaseCall.include_prereleases
         /\ releaseCall.out.is_prerelease = Selected.prerelease
         /\ releaseCall.via = "list" =>
              \A i \in 1..Len(releaseCall.repo) :
                Qualifies(releaseCall.repo[i]) =>
                  TimeOf(releaseCall.repo[i]) <= TimeOf(Selected)
    /\ (\A i \in 1..Len(releaseCall.repo) : ~Qualifies(releaseCall.repo[i]))
         => ~releaseCall.out.found

\* The first asset whose name satisfies ends, else the tag's source archive.
FirstAssetUrl(r, ends(_)) ==
  IF \E i \in 1..Len(r.assets) : ends(r.assets[i])
  THEN BrowserDownloadUrl(r.tag,
         CHOOSE i \in 1..Len(r.assets) :
           ends(r.assets[i]) /\ \A j \in 1..(i - 1) : ~ends(r.assets[j]))
  ELSE SourceArchive(r.tag)

\* C24 as stated: no draft is selected, a pre-release only when
\* include_prereleases, from the list the qualifying release with the greatest
\* creation time, None when no release qualifies, and the asset URL is that of
\* the first asset whose name ends in ".zip", else the tag's source archive.
C24_SelectionAsStated ==
  /\ SelectionAsStated
  /\ (releaseCall.pc = "done" /\ releaseCall.out.found) =>
       releaseCall.out.asset_url =
         FirstAssetUrl(Selected, LAMBDA name : EndsWith(name, DotZip))

\* C24, amended: the same, the asset being the first whose name ends in ".zip"
\* whatever the case of its letters.
C24_SelectionCaseInsensitive ==
  /\ SelectionAsStated
  /\ (releaseCall.pc = "done" /\ releaseCall.out.found) =>
       releaseCall.out.asset_url =
         FirstAssetUrl(Selected, LAMBDA name : EndsWith(Lower(name), DotZip))

\* The list held a draft newer than the release that was selected from it,
\* and that release's first asset is named in capitals.
C24_Witness ==
  /\ releaseCall.pc = "done"
  /\ releaseCall.via = "list"
  /\ releaseCall.out.found
  /\ \E i \in 1..Len(releaseCall.repo) :
       releaseCall.repo[i].draft /\ TimeOf(releaseCall.repo[i]) > TimeOf(Selected)
  /\ Selected.assets = <<UpperZipName, ZipName>>
  /\ releaseCall.out.asset_url = BrowserDownloadUrl(Selected.tag, 1)


\* The backup directories a step made and the ledger records it appended.
MadeDirs == backupFs' \ backupFs
Appended == SubSeq(Backups', Len(Backups) + 1, Len(Backups'))

\* C25: a switch_to_aces that gets past the installation picks its backup by
\* the override it finds: one that is set and is not the profile's path has
\* the override's directory backed up (a copy is made when that file exists
\* and the copy does not fail), none set has the host's own profile tried, the
\* profile's path itself has nothing backed up.  A call makes at most one
\* backup directory and one ledger record, and the record names the directory
\* of the override as it was before the call set it.
C25_BackupChosenByOverride ==
  [][ SwitchToAcesStep =>
        /\ Cardinality(MadeDirs) <= 1
        /\ IsPrefix(Backups, Backups') /\ Len(Appended) <= 1
        /\ ~result'.ok => (backupFs' = backupFs /\ stateFile' = stateFile)
        /\ result'.ok =>
             /\ (Override # NoPath /\ NormPath(Override) # NormPath(AcesConfigPath)) =>
                  /\ lastBackup'.which = "override"
                  /\ IsFile(Override, config') <=>
                       lastBackup'.outcome \in {"ok", "copyfailed"}
                  /\ \A d \in MadeDirs : d.kind = "backup"
                  /\ \A i \in 1..Len(Appended) :
                       Appended[i].src_dir = DirName(Override)
             /\ Override = NoPath =>
                  /\ lastBackup'.which = "default"
                  /\ hasDefaultConfig <=>
                       lastBackup'.outcome \in {"ok", "copyfailed"}
                  /\ \A d \in MadeDirs : d.kind = "default_backup"
                  /\ \A i \in 1..Len(Appended) :
                       Appended[i].src_dir = DefaultConfigDir
             /\ NormPath(Override) = NormPath(AcesConfigPath) =>
                  /\ lastBackup'.which = "none"
                  /\ backupFs' = backupFs
                  /\ stateFile' = stateFile
             /\ lastBackup'.outcome = "ok" <=> Len(Appended) = 1
             /\ Override' = AcesConfigPath ]_vars

\* A switch from a custom override has backed that override's directory up
\* and then set the override to the profile.
C25_Witness ==
  /\ result.op = "switch_to_aces"
  /\ result.ok
  /\ lastBackup = [which |-> "override", outcome |-> "ok"]
  /\ Len(Backups) > 0
  /\ Backups[Len(Backups)].src_dir = DirName(CustomPath)
  /\ Override = AcesConfigPath


\* C26: after a switch_to_aces that returned success the override reads back
\* as the profile's path, is_using_aces() is true and the profile is installed;
\* after a switch_to_default that returned success the override reads back
\* empty, OCIO is unset and is_using_aces() is false; on every host.
C26_SuccessReadsBack ==
  /\ (result.op = "switch_to_aces" /\ result.ok) =>
       /\ Override = AcesConfigPath
       /\ IsUsingAces(hostApi, pref, env)
       /\ IsAcesInstalled(config)
  /\ (result.op = "switch_to_default" /\ result.ok) =>
       /\ Override = NoPath
       /\ env = NoPath
       /\ ~IsUsingAces(hostApi, pref, env)


\* What the thread has to report when it ends: the success message of the
\* source that installed, else last_error.
ThreadOutcome(t) ==
  IF ttried[t] # << >> /\ ttried[t][Len(ttried[t])].ok
  THEN [level |-> "INFO",
        msg |-> Msg("ACES configuration installed", ttried[t][Len(ttried[t])].url)]
  ELSE [level |-> "ERROR", msg |-> terr[t]]

\* C27: a thread that was started ends, and it ends only by setting
\* installation_complete, having written installation_success and
\* installation_message before (they hold its outcome unless a cancel wrote
\* over them); and with no cancel since the operator was started, the modal
\* handler's report is the first of this installation, is made after the
\* thread has ended, is the thread's outcome, clears is_installing and
\* unregisters the handler.
C27_ThreadCompletesAndIsReported ==
  /\ (tpc[1] # "idle") ~> (tpc[1] = "idle")
  /\ [][ (tpc[1] # "idle" /\ tpc'[1] = "idle") =>
           /\ tpc[1] = "complete"
           /\ op'.installation_complete
           /\ ~cancelled =>
                /\ op'.installation_success = (ThreadOutcome(1).level = "INFO")
                /\ op'.installation_message = ThreadOutcome(1).msg ]_vars
  /\ [][ (ModalTick /\ ~cancelled) =>
           /\ tpc[1] = "idle"
           /\ reported = NoReport
           /\ reported' = ThreadOutcome(1)
           /\ ~op'.is_installing
           /\ ~modal' ]_vars
  /\ [][ reported' # reported => (ModalTick \/ InstallExecute(1)) ]_vars

\* The reading of the preferences raised, the thread ended through its outer
\* handler, and the modal handler reported its message.
C27_Witness ==
  /\ ~cancelled
  /\ ~modal
  /\ tpc[1] = "idle"
  /\ op.installation_complete
  /\ ~op.is_installing
  /\ reported = [level |-> "ERROR", msg |-> Msg("Installation error", -1)]


IncompatibleKind == "Downloaded config appears incompatible"

\* The call of the thread's current source returns the incompatibility error.
ReturnsIncompatible ==
  /\ tpc[1] = "fetch"
  /\ ttried'[1] # ttried[1]
  /\ terr'[1].kind = IncompatibleKind

\* C28 as stated: when the call returns the incompatibility error the profile
\* is not installed.
C28_FlaggedLeavesNothingInstalled ==
  [][ ReturnsIncompatible => ~IsAcesInstalled(config') ]_vars

\* C28, amended: the call that returns the incompatibility error has copied
\* nothing: its clean only took files away from aces/config and the rest of it
\* left aces/config as the clean left it, so the profile is installed
\* afterwards only if the marker of the profile staged before survived the
\* clean; the call counts as failed and the loop goes on to the next source
\* when there is one.
C28_FlaggedNeverStaged ==
  /\ [][ (tpc[1] = "call" /\ tpc'[1] = "fetch") => config' \subseteq config ]_vars
  /\ [][ ReturnsIncompatible =>
           /\ config' = config
           /\ ttried'[1] = Append(ttried[1],
                                  [url |-> Urls(acesRepoPref)[turl[1]], ok |-> FALSE])
           /\ terr'[1].url = Urls(acesRepoPref)[turl[1]]
           /\ IF turl[1] < Len(Urls(acesRepoPref))
              THEN tpc'[1] = "call" /\ turl'[1] = turl[1] + 1
              ELSE tpc'[1] = "fail_success" ]_vars

\* The first source was flagged while the marker of the old profile, which
\* the clean could not remove, is still there; the second source is next.
C28_Witness ==
  /\ tpc[1] = "call"
  /\ turl[1] = 2
  /\ terr[1].kind = IncompatibleKind
  /\ IsAcesInstalled(config)


\* C29: an uninstall run while is_using_aces() is true reports the error that
\* ACES is active, returns CANCELLED and removes nothing: aces/config, the
\* backups, the ledger and the override are as before; and no uninstall
\* leaves the active override on a profile it has deleted.
C29_UninstallRefusedWhileActive ==
  [][ UninstallExecute =>
        /\ IsUsingAces(hostApi, pref, env) =>
             /\ uninstallOp'.ret = "CANCELLED"
             /\ uninstallOp'.report =
                  [level |-> "ERROR",
                   msg |-> Msg("Cannot uninstall ACES while it's active. Switch to default first.", -1)]
             /\ config' = config
             /\ backupFs' = backupFs
             /\ stateFile' = stateFile
             /\ Override' = Override
        /\ (IsUsingAces(hostApi, pref', env') /\ IsAcesInstalled(config))
             => IsAcesInstalled(config') ]_vars

\* An uninstall was refused while the installed profile was the override.
C29_Witness ==
  /\ uninstallOp.ret = "CANCELLED"
  /\ uninstallOp.report.msg.kind =
       "Cannot uninstall ACES while it's active. Switch to default first."
  /\ IsUsingAces(hostApi, pref, env)
  /\ IsAcesInstalled(config)
  /\ result.op = "switch_to_aces"


\* The backup directory a ledger record names is there and was copied whole.
RecordComplete(rec, fs) ==
  \E d \in fs : /\ d.kind = rec.backup_dir.kind
                /\ d.time = rec.backup_dir.time
                /\ d.complete

\* C30: every record of the ledger's backups names a backup directory that
\* is there and whose copy completed, and no two records name the same
\* directory; a step that appends a record has made the directory it names,
\* whole, in that step; and a backup whose directory name is already taken
\* appends nothing.
C30_RecordsNameCompleteBackups ==
  /\ [](/\ \A i \in 1..Len(Backups) : RecordComplete(Backups[i], backupFs)
        /\ \A i, j \in 1..Len(Backups) :
             Backups[i].backup_dir = Backups[j].backup_dir => i = j)
  /\ [][ Len(Backups') > Len(Backups) =>
           /\ Len(Backups') = Len(Backups) + 1
           /\ ~RecordComplete(Backups'[Len(Backups')], backupFs)
           /\ RecordComplete(Backups'[Len(Backups')], backupFs')
           /\ lastBackup'.outcome = "ok" ]_vars
  /\ [][ ((SwitchToAcesStep \/ SwitchToDefaultStep)
          /\ lastBackup'.outcome # "nosource" /\ lastBackup'.which # "none"
          /\ BackupExists(backupFs,
                          IF lastBackup'.which = "default" THEN "default_backup"
                          ELSE "backup", now))
           => /\ lastBackup'.outcome = "copyfailed"
              /\ Len(Backups') <= Len(Backups)
              /\ backupFs' = backupFs ]_vars

\* A second backup of the host's profile in the same second found its
\* directory there and failed; the ledger holds the one record of the first.
C30_Witness ==
  /\ lastBackup = [which |-> "default", outcome |-> "copyfailed"]
  /\ Cardinality({i \in 1..Len(Backups) :
                    Backups[i].backup_dir = BackupDir("default_backup", now)}) = 1
  /\ \E d \in backupFs : d.kind = "default_backup" /\ d.time = now /\ d.complete

====
